---------------------------- MODULE Spec2Model ----------------------------
(***************************************************************************)
(* Multi-tenant access control: workspaces, divisions, memberships, roles  *)
(* and workspace invitations.  The document store is modelled by one       *)
(* variable per collection; every request is one action made of its route  *)
(* guards (workspaceScope / divisionScope) followed by its service.        *)
(***************************************************************************)
EXTENDS Integers, Sequences, FiniteSets, TLC

(* ------------------------------ bounds -------------------------------- *)
MaxWorkspaces == 2
MaxDivisions == 2
MaxTokens == 2
MaxTime == 2
MaxInflight == 2
MaxRoles == 5
MaxQuery == 2
MaxRefusedSaves == 1

(* ------------------------- program constants -------------------------- *)
\* Number(process.env.INVITE_EXPIRY_MS), in clock ticks
INVITE_EXPIRY_MS == 1
\* Math.max(Number(req.query.page) || 1, 1)
DEFAULT_PAGE == 1
\* Math.min(Number(req.query.limit) || 20, 100)
DEFAULT_LIMIT == 20
MAX_LIMIT == 100

Users == {"u1", "u2", "su"}
NoUser == "none"
\* req.user.role as issued by the identity provider
GlobalRole(u) == IF u = "su" THEN "ostad" ELSE "user"

\* addresses as requests spell them; "E2" is "e2" in another letter case
Emails == {"e1", "e2", "E2", "e3"}
\* userSchema.email is lowercase: true, and the setter runs on query filters
Lower(e) == IF e = "E2" THEN "e2" ELSE e
\* User.findOne({ email }): "e3" belongs to nobody
UserOfEmail(e) ==
  IF Lower(e) = "e1" THEN "u1" ELSE IF Lower(e) = "e2" THEN "u2" ELSE NoUser

WsIds == 1..MaxWorkspaces
DivIds == 1..MaxDivisions
Tokens == 1..MaxTokens
WsNames == {"A", "B"}
DivNames == {"X", "Y"}

\* allowedRoles arrays handed to the scope middlewares (only includes() and
\* length are used, so a set carries the same information)
WsAllowedSets == { {}, {"admin"}, {"user"} }
DivAllowedSets == { {}, {"division_admin"}, {"division_member"} }

(* ------------------------------ helpers ------------------------------- *)
Range(s) == { s[i] : i \in 1..Len(s) }

RECURSIVE Dedup(_)
\* [...new Set(arr)]: first occurrences, in order
Dedup(s) ==
  IF s = <<>> THEN <<>>
  ELSE LET r == Dedup(SubSeq(s, 1, Len(s) - 1))
           x == s[Len(s)]
       IN IF x \in Range(r) THEN r ELSE Append(r, x)

RECURSIVE Without(_, _)
\* $pull / filter(r => r !== x): every occurrence of x removed, order kept
Without(s, x) ==
  IF s = <<>> THEN <<>>
  ELSE IF Head(s) = x THEN Without(Tail(s), x)
       ELSE <<Head(s)>> \o Without(Tail(s), x)

\* deleteOne / findOneAndDelete on the i-th document of a collection
RemoveAt(s, i) == SubSeq(s, 1, i - 1) \o SubSeq(s, i + 1, Len(s))

\* mutant: a plain $push in place of $addToSet
AddToSet_Push(s, x) == Append(s, x)

\* $addToSet
AddToSet(s, x) == IF x \in Range(s) THEN s ELSE Append(s, x)

(* ------------------------------- state -------------------------------- *)
VARIABLES
  workspaces,      \* Workspace collection: id -> document
  wsCount,         \* workspace ids handed out so far (ids are never reused)
  divisions,       \* Division collection: id -> document
  divCount,        \* division ids handed out so far
  memberships,     \* Membership collection: <<user, workspace>> -> documents, oldest first
  divMemberships,  \* DivisionMembership collection: <<user, division>> -> documents
  invites,         \* Invite collection: token -> document
  tokCount,        \* tokens generated so far
  now,             \* the clock
  inflight,        \* accept requests between two of their awaits
  last             \* the request served by the last step and its outcome

vars == <<workspaces, wsCount, divisions, divCount, memberships, divMemberships,
          invites, tokCount, now, inflight, last>>

dbVars == <<workspaces, wsCount, divisions, divCount, memberships, divMemberships,
            invites, tokCount>>

DefaultWorkspaceRoles ==
  << [id |-> 1, name |-> "admin", permissions |-> <<"manage_workspace", "invite_users", "assign_roles">>],
     [id |-> 2, name |-> "moderator", permissions |-> <<"moderate_content">>],
     [id |-> 3, name |-> "manager", permissions |-> <<"manage_team">>],
     [id |-> 4, name |-> "user", permissions |-> <<>>] >>

DefaultDivisionRoles ==
  << [id |-> 1, name |-> "division_admin", permissions |-> <<"manage_division", "assign_roles">>],
     [id |-> 2, name |-> "division_member", permissions |-> <<>>] >>

Req(op, user, ws, div, token, target, allowed, stage, res) ==
  [op |-> op, user |-> user, ws |-> ws, div |-> div, token |-> token,
   target |-> target, allowed |-> allowed, stage |-> stage, res |-> res]

Init ==
  /\ workspaces = << >>
  /\ wsCount = 0
  /\ divisions = << >>
  /\ divCount = 0
  /\ memberships = [k \in Users \X WsIds |-> << >>]
  /\ divMemberships = [k \in Users \X DivIds |-> << >>]
  /\ invites = << >>
  /\ tokCount = 0
  /\ now = 0
  /\ inflight = {}
  /\ last = Req("init", NoUser, 0, 0, 0, NoUser, {}, "none", "OK")

(* --------------------------- scope resolver --------------------------- *)
\* mutant: the role test without its 'admin' clause
HasWorkspaceRoles_NoAdmin(roles, allowed) ==
  \E i \in 1..Len(roles) : roles[i] \in allowed

\* membership.workspaceRoles.some(r => allowed.includes(r) || roles.includes('admin'))
HasWorkspaceRoles(roles, allowed) ==
  \E i \in 1..Len(roles) : roles[i] \in allowed \/ "admin" \in Range(roles)

\* Membership.findOne({ user, workspace }): the oldest matching document
FindMembership(u, w) == memberships[<<u, w>>]

\* mutant: the role test applied to an empty allowedRoles as well
workspaceScope_AlwaysRoleTest(u, w, allowed) ==
  IF w \notin DOMAIN workspaces THEN "NotFound"
  ELSE IF GlobalRole(u) = "ostad" THEN "next"
  ELSE LET found == FindMembership(u, w) IN
       IF found = << >> \/ Head(found).status # "active" THEN "Forbidden"
       ELSE IF ~HasWorkspaceRoles(Head(found).roles, allowed)
            THEN "Forbidden"
            ELSE "next"

\* mutant: workspaceScope without the superuser override
workspaceScope_NoOverride(u, w, allowed) ==
  IF w \notin DOMAIN workspaces THEN "NotFound"
  ELSE LET found == FindMembership(u, w) IN
       IF found = << >> \/ Head(found).status # "active" THEN "Forbidden"
       ELSE IF allowed # {} /\ ~HasWorkspaceRoles(Head(found).roles, allowed)
            THEN "Forbidden"
            ELSE "next"

workspaceScope(u, w, allowed) ==
  IF w \notin DOMAIN workspaces THEN "NotFound"
  ELSE IF GlobalRole(u) = "ostad" THEN "next"
  ELSE LET found == FindMembership(u, w) IN
       IF found = << >> \/ Head(found).status # "active" THEN "Forbidden"
       ELSE IF allowed # {} /\ ~HasWorkspaceRoles(Head(found).roles, allowed)
            THEN "Forbidden"
            ELSE "next"

\* req.membership as attached by a passing workspaceScope
ReqMembership(u, w) ==
  [user |-> u, workspace |-> w,
   roles |-> IF GlobalRole(u) = "ostad"
             THEN [i \in 1..Len(workspaces[w].roles) |-> workspaces[w].roles[i].name]
             ELSE Head(FindMembership(u, w)).roles]

\* divisionMembership.divisionRoles.some(r => allowed.includes(r) || roles.includes('admin'))
HasDivisionRoles(roles, allowed) ==
  \E i \in 1..Len(roles) : roles[i] \in allowed \/ "admin" \in Range(roles)

\* DivisionMembership.findOne({ user, division })
FindDivMembership(u, d) == divMemberships[<<u, d>>]

\* mutant: the superuser override placed before the cross-workspace guard
divisionScope_OverrideFirst(u, reqMembershipUser, w, d, allowed) ==
  IF u # reqMembershipUser THEN "Unauthorized"
  ELSE IF d \notin DOMAIN divisions THEN "NotFound"
  ELSE IF GlobalRole(u) = "ostad" THEN "next"
  ELSE IF divisions[d].workspace # w THEN "BadRequest"
  ELSE LET found == FindDivMembership(u, d) IN
       IF found = << >> \/ Head(found).status # "active" THEN "Forbidden"
       ELSE IF allowed # {} /\ ~HasDivisionRoles(Head(found).roles, allowed)
            THEN "Forbidden"
            ELSE "next"

\* mutant: the membership gate applied only when roles are required
divisionScope_GateOnlyWithRoles(u, reqMembershipUser, w, d, allowed) ==
  IF u # reqMembershipUser THEN "Unauthorized"
  ELSE IF d \notin DOMAIN divisions THEN "NotFound"
  ELSE IF divisions[d].workspace # w THEN "BadRequest"
  ELSE IF GlobalRole(u) = "ostad" \/ allowed = {} THEN "next"
  ELSE LET found == FindDivMembership(u, d) IN
       IF found = << >> \/ Head(found).status # "active" THEN "Forbidden"
       ELSE IF ~HasDivisionRoles(Head(found).roles, allowed)
            THEN "Forbidden"
            ELSE "next"

divisionScope(u, reqMembershipUser, w, d, allowed) ==
  IF u # reqMembershipUser THEN "Unauthorized"
  ELSE IF d \notin DOMAIN divisions THEN "NotFound"
  ELSE IF divisions[d].workspace # w THEN "BadRequest"
  ELSE IF GlobalRole(u) = "ostad" THEN "next"
  ELSE LET found == FindDivMembership(u, d) IN
       IF found = << >> \/ Head(found).status # "active" THEN "Forbidden"
       ELSE IF allowed # {} /\ ~HasDivisionRoles(Head(found).roles, allowed)
            THEN "Forbidden"
            ELSE "next"

\* router.use('/:workspaceId/divisions', workspaceScope(), divisionRouter) followed
\* by a division route's own divisionScope(allowed): <<answering stage, outcome>>
DivisionChain(u, w, d, allowed) ==
  IF workspaceScope(u, w, {}) # "next"
  THEN <<"workspace", workspaceScope(u, w, {})>>
  ELSE <<"division", divisionScope(u, ReqMembership(u, w).user, w, d, allowed)>>

(* ----------------------------- requests ------------------------------- *)
\* workspaceScope(allowed) in front of a handler that only reads
WorkspaceScopeCheck(u, w, allowed) ==
  /\ last' = Req("workspaceScope", u, w, 0, 0, NoUser, allowed, "workspace",
                 workspaceScope(u, w, allowed))
  /\ UNCHANGED <<dbVars, now, inflight>>

\* workspaceScope() then divisionScope(allowed) in front of a handler that only reads
DivisionScopeCheck(u, w, d, allowed) ==
  /\ last' = Req("divisionScope", u, w, d, 0, NoUser, allowed,
                 DivisionChain(u, w, d, allowed)[1], DivisionChain(u, w, d, allowed)[2])
  /\ UNCHANGED <<dbVars, now, inflight>>

\* mutant: the creator enrolled with the default role of an invitee
CreatorRoles_User == <<"user">>

\* workspaceRoles: ['admin'] of the Membership createWorkspace creates
CreatorRoles == <<"admin">>

\* mutant: the creation without the test of the name, on a store without the
\* unique index
CreateWorkspace_NoNameTest(u, name) ==
  /\ wsCount < MaxWorkspaces
  /\ LET w == wsCount + 1 IN
     /\ workspaces' = (w :> [name |-> name, createdBy |-> u,
                             roles |-> DefaultWorkspaceRoles]) @@ workspaces
     /\ wsCount' = w
     /\ memberships' = [memberships EXCEPT ![<<u, w>>] =
                          Append(@, [roles |-> Dedup(CreatorRoles), status |-> "active"])]
     /\ last' = Req("createWorkspace", u, w, 0, 0, NoUser, {}, "service", "OK")
     /\ UNCHANGED <<divisions, divCount, divMemberships, invites, tokCount, now, inflight>>

\* POST /workspace
CreateWorkspace(u, name) ==
  /\ wsCount < MaxWorkspaces
  /\ IF \E w \in DOMAIN workspaces :
          workspaces[w].name = name /\ workspaces[w].createdBy = u
     THEN /\ last' = Req("createWorkspace", u, 0, 0, 0, NoUser, {}, "service", "BadRequest")
          /\ UNCHANGED <<dbVars, now, inflight>>
     ELSE IF \E w \in DOMAIN workspaces : workspaces[w].name = name
     THEN \* the unique index on name rejects the insert
          /\ last' = Req("createWorkspace", u, 0, 0, 0, NoUser, {}, "service", "Internal")
          /\ UNCHANGED <<dbVars, now, inflight>>
     ELSE LET w == wsCount + 1 IN
          /\ workspaces' = (w :> [name |-> name, createdBy |-> u,
                                  roles |-> DefaultWorkspaceRoles]) @@ workspaces
          /\ wsCount' = w
          /\ memberships' = [memberships EXCEPT ![<<u, w>>] =
                               Append(@, [roles |-> Dedup(CreatorRoles), status |-> "active"])]
          /\ last' = Req("createWorkspace", u, w, 0, 0, NoUser, {}, "service", "OK")
          /\ UNCHANGED <<divisions, divCount, divMemberships, invites, tokCount, now, inflight>>

\* POST /workspace when Membership.create rejects: the Workspace document written
\* by Workspace.create stays, the creator gets no Membership and the request
\* fails
CreateWorkspacePartial(u, name) ==
  /\ wsCount < MaxWorkspaces
  /\ ~\E w \in DOMAIN workspaces : workspaces[w].name = name
  /\ LET w == wsCount + 1 IN
     /\ workspaces' = (w :> [name |-> name, createdBy |-> u,
                             roles |-> DefaultWorkspaceRoles]) @@ workspaces
     /\ wsCount' = w
     /\ last' = Req("createWorkspace", u, w, 0, 0, NoUser, {}, "service", "Internal")
     /\ UNCHANGED <<divisions, divCount, memberships, divMemberships, invites, tokCount,
                    now, inflight>>

(* --------------------------- invitations ------------------------------ *)
\* Invite.findOne({ email, workspace }): the oldest matching document (0: none)
FindInviteFor(e, w) ==
  LET hits == { t \in DOMAIN invites : invites[t].email = e /\ invites[t].workspace = w }
  IN IF hits = {} THEN 0 ELSE CHOOSE t \in hits : \A t2 \in hits : t <= t2

\* the Invite collection without document t
DropInvite(t) == [x \in (DOMAIN invites) \ {t} |-> invites[x]]

\* mutant: the send that deletes the prior invitation before the Membership test
SendService_DeleteFirst(by, w, e) ==
  LET existingUser == UserOfEmail(e)
      old == FindInviteFor(e, w)
      kept == IF old = 0 THEN invites ELSE DropInvite(old)
      token == tokCount + 1
  IN IF existingUser # NoUser /\ memberships[<<existingUser, w>>] # << >>
     THEN <<"BadRequest", kept>>
     ELSE <<"OK", (token :> [email |-> e, user |-> existingUser, workspace |-> w,
                            role |-> "user", invitedBy |-> by,
                            status |-> IF existingUser # NoUser THEN "sent" ELSE "pending",
                            expiresAt |-> now + INVITE_EXPIRY_MS]) @@ kept>>

\* mutant: the send that leaves the prior invitation in place
SendService_KeepOld(by, w, e) ==
  LET existingUser == UserOfEmail(e) IN
  IF existingUser # NoUser /\ memberships[<<existingUser, w>>] # << >>
  THEN <<"BadRequest", invites>>
  ELSE <<"OK", ((tokCount + 1) :>
                  [email |-> e, user |-> existingUser, workspace |-> w,
                   role |-> "user", invitedBy |-> by,
                   status |-> IF existingUser # NoUser THEN "sent" ELSE "pending",
                   expiresAt |-> now + INVITE_EXPIRY_MS]) @@ invites>>

\* sendWorkspaceInvite: <<outcome, invites after>>
SendService(by, w, e) ==
  LET existingUser == UserOfEmail(e) IN
  IF existingUser # NoUser /\ memberships[<<existingUser, w>>] # << >>
  THEN <<"BadRequest", invites>>
  ELSE LET old == FindInviteFor(e, w)
           kept == IF old = 0 THEN invites ELSE DropInvite(old)
           token == tokCount + 1
       IN <<"OK", (token :> [email |-> e, user |-> existingUser, workspace |-> w,
                            role |-> "user", invitedBy |-> by,
                            status |-> IF existingUser # NoUser THEN "sent" ELSE "pending",
                            expiresAt |-> now + INVITE_EXPIRY_MS]) @@ kept>>

\* POST /workspace/:workspaceId/invites/send
SendInvite(u, w, e) ==
  /\ tokCount < MaxTokens
  /\ LET guard == workspaceScope(u, w, {"admin"}) IN
     IF guard # "next"
     THEN /\ last' = Req("send", u, w, 0, 0, UserOfEmail(e), {"admin"}, "workspace", guard)
          /\ UNCHANGED <<dbVars, now, inflight>>
     ELSE LET r == SendService(u, ReqMembership(u, w).workspace, e) IN
          /\ invites' = r[2]
          /\ tokCount' = IF r[1] = "OK" THEN tokCount + 1 ELSE tokCount
          /\ last' = Req("send", u, w, 0, IF r[1] = "OK" THEN tokCount + 1 ELSE 0,
                         UserOfEmail(e), {"admin"}, "service", r[1])
          /\ UNCHANGED <<workspaces, wsCount, divisions, divCount, memberships,
                         divMemberships, now, inflight>>

\* mutant: the checks without the test of the actor the invitation is bound to
InviteChecks_NoActorTest(t, u) ==
  IF t \notin DOMAIN invites THEN "BadRequest"
  ELSE IF invites[t].expiresAt < now THEN "BadRequest"
  ELSE IF invites[t].status # "sent" /\ invites[t].status # "pending" THEN "BadRequest"
  ELSE "OK"

\* mutant: the checks without the test of the expiry date
InviteChecks_NoExpiry(t, u) ==
  IF t \notin DOMAIN invites THEN "BadRequest"
  ELSE IF invites[t].user # u THEN "BadRequest"
  ELSE IF invites[t].status # "sent" /\ invites[t].status # "pending" THEN "BadRequest"
  ELSE "OK"

\* mutant: the checks without the test of the invitation's status
InviteChecks_NoStatus(t, u) ==
  IF t \notin DOMAIN invites THEN "BadRequest"
  ELSE IF invites[t].user # u THEN "BadRequest"
  ELSE IF invites[t].expiresAt < now THEN "BadRequest"
  ELSE "OK"

\* the checks acceptWorkspaceInvite and declineWorkspaceInvite make on the
\* invitation they read: "OK" or the kind of the error thrown
InviteChecks(t, u) ==
  IF t \notin DOMAIN invites THEN "BadRequest"
  ELSE IF invites[t].user # u THEN "BadRequest"
  ELSE IF invites[t].expiresAt < now THEN "BadRequest"
  ELSE IF invites[t].status # "sent" /\ invites[t].status # "pending" THEN "BadRequest"
  ELSE "OK"

\* Membership.create({ user, workspace, workspaceRoles, status }) with its pre('save') hook
CreateMembership(ms, u, w, roles) ==
  [ms EXCEPT ![<<u, w>>] = Append(@, [roles |-> Dedup(roles), status |-> "active"])]

\* mutant: the new status is never written
SaveInviteStatus_Skip(inv, t, s) == inv

\* invite.status = s; await invite.save()
SaveInviteStatus(inv, t, s) == [inv EXCEPT ![t].status = s]

\* PUT /workspace/invites/:token/accept
AcceptInvite(u, t) ==
  /\ last' = Req("accept", u, 0, 0, t, NoUser, {}, "service", InviteChecks(t, u))
  /\ IF InviteChecks(t, u) = "OK"
     THEN /\ memberships' = CreateMembership(memberships, u, invites[t].workspace,
                                             <<invites[t].role>>)
          /\ invites' = SaveInviteStatus(invites, t, "accepted")
     ELSE UNCHANGED <<memberships, invites>>
  /\ UNCHANGED <<workspaces, wsCount, divisions, divCount, divMemberships, tokCount,
                 now, inflight>>

(* ------------- acceptWorkspaceInvite, one await at a time ------------- *)
\* the smallest request id not in flight
FreeRid == CHOOSE i \in 1..MaxInflight : \A r \in inflight : r.rid # i

\* const invite = await Invite.findOne({ token }), and the checks on what was read
AcceptRead(u, t) ==
  /\ Cardinality(inflight) < MaxInflight
  /\ IF InviteChecks(t, u) = "OK"
     THEN /\ inflight' = inflight \cup
                 {[rid |-> FreeRid, user |-> u, token |-> t, pc |-> "create",
                   workspace |-> invites[t].workspace, role |-> invites[t].role]}
          /\ last' = Req("acceptRead", u, 0, 0, t, NoUser, {}, "service", "pending")
     ELSE /\ inflight' = inflight
          /\ last' = Req("accept", u, 0, 0, t, NoUser, {}, "service", InviteChecks(t, u))
  /\ UNCHANGED <<dbVars, now>>

\* await Membership.create({ ... }) of a request that passed the checks
AcceptCreate(r) ==
  /\ r \in inflight /\ r.pc = "create"
  /\ memberships' = CreateMembership(memberships, r.user, r.workspace, <<r.role>>)
  /\ inflight' = (inflight \ {r}) \cup {[r EXCEPT !.pc = "save"]}
  /\ last' = Req("acceptCreate", r.user, 0, 0, r.token, NoUser, {}, "service", "pending")
  /\ UNCHANGED <<workspaces, wsCount, divisions, divCount, divMemberships, invites,
                 tokCount, now>>

\* invite.status = 'accepted'; await invite.save(); the response is sent
\* (save() of a document deleted meanwhile throws DocumentNotFoundError)
AcceptSave(r) ==
  /\ r \in inflight /\ r.pc = "save"
  /\ inflight' = inflight \ {r}
  /\ IF r.token \in DOMAIN invites
     THEN /\ invites' = SaveInviteStatus(invites, r.token, "accepted")
          /\ last' = Req("accept", r.user, 0, 0, r.token, NoUser, {}, "service", "OK")
     ELSE /\ invites' = invites
          /\ last' = Req("accept", r.user, 0, 0, r.token, NoUser, {}, "service", "Internal")
  /\ UNCHANGED <<workspaces, wsCount, divisions, divCount, memberships, divMemberships,
                 tokCount, now>>

(* ------------- sendWorkspaceInvite, one await at a time --------------- *)
\* the sends in flight
SendsInFlight == { r \in inflight : r.pc \in {"sendDelete", "sendCreate"} }

\* the route guard, User.findOne / Membership.findOne and their check, then
\* const existingInvite = await Invite.findOne({ email, workspace })
SendFind(u, w, e) ==
  /\ Cardinality(inflight) < MaxInflight
  /\ tokCount + Cardinality(SendsInFlight) < MaxTokens
  /\ LET guard == workspaceScope(u, w, {"admin"})
         member == UserOfEmail(e) # NoUser /\ memberships[<<UserOfEmail(e), w>>] # << >>
     IN IF guard # "next"
        THEN /\ inflight' = inflight
             /\ last' = Req("send", u, w, 0, 0, UserOfEmail(e), {"admin"}, "workspace", guard)
        ELSE IF member
        THEN /\ inflight' = inflight
             /\ last' = Req("send", u, w, 0, 0, UserOfEmail(e), {"admin"}, "service",
                            "BadRequest")
        ELSE /\ inflight' = inflight \cup
                    {[rid |-> FreeRid, user |-> u, workspace |-> w, email |-> e,
                      old |-> FindInviteFor(e, w),
                      pc |-> IF FindInviteFor(e, w) = 0 THEN "sendCreate" ELSE "sendDelete"]}
             /\ last' = Req("sendFind", u, w, 0, FindInviteFor(e, w), UserOfEmail(e),
                            {"admin"}, "service", "pending")
  /\ UNCHANGED <<dbVars, now>>

\* if (existingInvite) await existingInvite.deleteOne()
\* (deleting a document that is already gone deletes nothing)
SendDelete(r) ==
  /\ r \in inflight /\ r.pc = "sendDelete"
  /\ invites' = IF r.old \in DOMAIN invites THEN DropInvite(r.old) ELSE invites
  /\ inflight' = (inflight \ {r}) \cup {[r EXCEPT !.pc = "sendCreate"]}
  /\ last' = Req("sendDelete", r.user, r.workspace, 0, r.old, UserOfEmail(r.email),
                 {"admin"}, "service", "pending")
  /\ UNCHANGED <<workspaces, wsCount, divisions, divCount, memberships, divMemberships,
                 tokCount, now>>

\* const invite = await Invite.create({ ... }); the response is sent
SendCreate(r) ==
  /\ r \in inflight /\ r.pc = "sendCreate"
  /\ invites' = ((tokCount + 1) :>
                   [email |-> r.email, user |-> UserOfEmail(r.email),
                    workspace |-> r.workspace, role |-> "user", invitedBy |-> r.user,
                    status |-> IF UserOfEmail(r.email) # NoUser THEN "sent" ELSE "pending",
                    expiresAt |-> now + INVITE_EXPIRY_MS]) @@ invites
  /\ tokCount' = tokCount + 1
  /\ inflight' = inflight \ {r}
  /\ last' = Req("send", r.user, r.workspace, 0, tokCount + 1, UserOfEmail(r.email),
                 {"admin"}, "service", "OK")
  /\ UNCHANGED <<workspaces, wsCount, divisions, divCount, memberships, divMemberships, now>>

\* mutant: the decline that enrols the invitee as the accept does
DeclineInvite_Enrols(u, t) ==
  /\ last' = Req("decline", u, 0, 0, t, NoUser, {}, "service", InviteChecks(t, u))
  /\ IF InviteChecks(t, u) = "OK"
     THEN /\ memberships' = CreateMembership(memberships, u, invites[t].workspace,
                                             <<invites[t].role>>)
          /\ invites' = SaveInviteStatus(invites, t, "declined")
     ELSE UNCHANGED <<memberships, invites>>
  /\ UNCHANGED <<workspaces, wsCount, divisions, divCount, divMemberships, tokCount,
                 now, inflight>>

\* PUT /workspace/invites/:token/decline
DeclineInvite(u, t) ==
  /\ last' = Req("decline", u, 0, 0, t, NoUser, {}, "service", InviteChecks(t, u))
  /\ IF InviteChecks(t, u) = "OK"
     THEN invites' = SaveInviteStatus(invites, t, "declined")
     ELSE UNCHANGED invites
  /\ UNCHANGED <<workspaces, wsCount, divisions, divCount, memberships, divMemberships,
                 tokCount, now, inflight>>

(* ------------- declineWorkspaceInvite, one await at a time ------------ *)
\* const invite = await Invite.findOne({ token }), and the checks on what was read
DeclineRead(u, t) ==
  /\ Cardinality(inflight) < MaxInflight
  /\ IF InviteChecks(t, u) = "OK"
     THEN /\ inflight' = inflight \cup
                 {[rid |-> FreeRid, user |-> u, token |-> t, pc |-> "declineSave",
                   workspace |-> invites[t].workspace, role |-> invites[t].role]}
          /\ last' = Req("declineRead", u, 0, 0, t, NoUser, {}, "service", "pending")
     ELSE /\ inflight' = inflight
          /\ last' = Req("decline", u, 0, 0, t, NoUser, {}, "service", InviteChecks(t, u))
  /\ UNCHANGED <<dbVars, now>>

\* invite.status = 'declined'; await invite.save(); the response is sent
DeclineSave(r) ==
  /\ r \in inflight /\ r.pc = "declineSave"
  /\ inflight' = inflight \ {r}
  /\ IF r.token \in DOMAIN invites
     THEN /\ invites' = SaveInviteStatus(invites, r.token, "declined")
          /\ last' = Req("decline", r.user, 0, 0, r.token, NoUser, {}, "service", "OK")
     ELSE /\ invites' = invites
          /\ last' = Req("decline", r.user, 0, 0, r.token, NoUser, {}, "service", "Internal")
  /\ UNCHANGED <<workspaces, wsCount, divisions, divCount, memberships, divMemberships,
                 tokCount, now>>

\* DELETE /workspace/:workspaceId/invites/:token
DeleteInvite(u, w, t) ==
  LET guard == workspaceScope(u, w, {"admin"}) IN
  /\ IF guard # "next"
     THEN /\ last' = Req("deleteInvite", u, w, 0, t, NoUser, {"admin"}, "workspace", guard)
          /\ UNCHANGED invites
     ELSE IF t \notin DOMAIN invites
     THEN /\ last' = Req("deleteInvite", u, w, 0, t, NoUser, {"admin"}, "service", "BadRequest")
          /\ UNCHANGED invites
     ELSE /\ last' = Req("deleteInvite", u, w, 0, t, NoUser, {"admin"}, "service", "OK")
          /\ invites' = DropInvite(t)
  /\ UNCHANGED <<workspaces, wsCount, divisions, divCount, memberships, divMemberships,
                 tokCount, now, inflight>>

\* time passes (new Date() grows between requests)
Tick ==
  /\ now < MaxTime
  /\ now' = now + 1
  /\ last' = Req("tick", NoUser, 0, 0, 0, NoUser, {}, "none", "OK")
  /\ UNCHANGED <<dbVars, inflight>>


(* ----------------------------- divisions ------------------------------ *)
\* the guards of POST /:workspaceId/divisions: workspaceScope() of the mount,
\* then workspaceScope(['division_admin']) of the route
CreateDivisionGuard(u, w) ==
  IF workspaceScope(u, w, {}) # "next" THEN workspaceScope(u, w, {})
  ELSE workspaceScope(u, w, {"division_admin"})

\* DivisionMembership.create({ user, workspace, division, divisionRoles }) with its
\* pre('save') hook; status defaults to 'active'
CreateDivMembership(dms, u, w, d, roles) ==
  [dms EXCEPT ![<<u, d>>] =
     Append(@, [workspace |-> w, roles |-> Dedup(roles), status |-> "active"])]

\* POST /workspace/:workspaceId/divisions
CreateDivision(u, w, name) ==
  /\ divCount < MaxDivisions
  /\ LET guard == CreateDivisionGuard(u, w) IN
     IF guard # "next"
     THEN /\ last' = Req("createDivision", u, w, 0, 0, NoUser, {"division_admin"},
                         "workspace", guard)
          /\ UNCHANGED <<dbVars, now, inflight>>
     ELSE IF \E d \in DOMAIN divisions :
               divisions[d].name = name /\ divisions[d].workspace = w
     THEN /\ last' = Req("createDivision", u, w, 0, 0, NoUser, {"division_admin"},
                         "service", "Internal")
          /\ UNCHANGED <<dbVars, now, inflight>>
     ELSE LET d == divCount + 1 IN
          /\ divisions' = (d :> [workspace |-> w, name |-> name, createdBy |-> u,
                                 roles |-> DefaultDivisionRoles]) @@ divisions
          /\ divCount' = d
          /\ divMemberships' = CreateDivMembership(divMemberships, u, w, d,
                                                   <<"division_admin">>)
          /\ last' = Req("createDivision", u, w, d, 0, NoUser, {"division_admin"},
                         "service", "OK")
          /\ UNCHANGED <<workspaces, wsCount, memberships, invites, tokCount, now, inflight>>

\* PUT /workspace/:workspaceId/divisions/:divisionId
UpdateDivision(u, w, d, name) ==
  LET chain == DivisionChain(u, w, d, {"division_division_admin"}) IN
  /\ IF chain[2] # "next"
     THEN /\ last' = Req("updateDivision", u, w, d, 0, NoUser,
                         {"division_division_admin"}, chain[1], chain[2])
          /\ UNCHANGED divisions
     ELSE IF \E x \in DOMAIN divisions : divisions[x].name = name /\ x # d
     THEN /\ last' = Req("updateDivision", u, w, d, 0, NoUser,
                         {"division_division_admin"}, "service", "Internal")
          /\ UNCHANGED divisions
     ELSE /\ last' = Req("updateDivision", u, w, d, 0, NoUser,
                         {"division_division_admin"}, "service", "OK")
          /\ divisions' = [divisions EXCEPT ![d].name = name]
  /\ UNCHANGED <<workspaces, wsCount, divCount, memberships, divMemberships, invites,
                 tokCount, now, inflight>>

\* PUT /workspace/:workspaceId
\* (name is unique: true, so a name another workspace has is a duplicate key)
UpdateWorkspace(u, w, name) ==
  LET guard == workspaceScope(u, w, {"admin"}) IN
  /\ IF guard # "next"
     THEN /\ last' = Req("updateWorkspace", u, w, 0, 0, NoUser, {"admin"}, "workspace", guard)
          /\ UNCHANGED workspaces
     ELSE IF \E x \in DOMAIN workspaces : x # w /\ workspaces[x].name = name
     THEN /\ last' = Req("updateWorkspace", u, w, 0, 0, NoUser, {"admin"}, "service",
                         "Internal")
          /\ UNCHANGED workspaces
     ELSE /\ last' = Req("updateWorkspace", u, w, 0, 0, NoUser, {"admin"}, "service", "OK")
          /\ workspaces' = [workspaces EXCEPT ![w].name = name]
  /\ UNCHANGED <<wsCount, divisions, divCount, memberships, divMemberships, invites,
                 tokCount, now, inflight>>

\* mutant: the hook that deletes nothing
DeleteManyMemberships_Skip(ms, w) == ms

\* workspaceSchema.pre('findOneAndDelete'): Membership.deleteMany({ workspace })
DeleteManyMemberships(ms, w) ==
  [k \in DOMAIN ms |-> IF k[2] = w THEN << >> ELSE ms[k]]

\* divisionSchema.pre('findOneAndDelete'): DivisionMembership.deleteMany({ division })
DeleteManyDivMemberships(dms, d) ==
  [k \in DOMAIN dms |-> IF k[2] = d THEN << >> ELSE dms[k]]

\* DELETE /workspace/:workspaceId
\* (the guard has found the workspace, so findByIdAndDelete finds it too)
DeleteWorkspace(u, w) ==
  LET guard == workspaceScope(u, w, {"admin"}) IN
  /\ IF guard # "next"
     THEN /\ last' = Req("deleteWorkspace", u, w, 0, 0, NoUser, {"admin"}, "workspace", guard)
          /\ UNCHANGED <<workspaces, memberships>>
     ELSE /\ last' = Req("deleteWorkspace", u, w, 0, 0, NoUser, {"admin"}, "service", "OK")
          /\ memberships' = DeleteManyMemberships(memberships, w)
          /\ workspaces' = [x \in (DOMAIN workspaces) \ {w} |-> workspaces[x]]
  /\ UNCHANGED <<wsCount, divisions, divCount, divMemberships, invites, tokCount, now,
                 inflight>>

\* DELETE /workspace/:workspaceId/divisions/:divisionId
DeleteDivision(u, w, d) ==
  LET chain == DivisionChain(u, w, d, {"division_admin"}) IN
  /\ IF chain[2] # "next"
     THEN /\ last' = Req("deleteDivision", u, w, d, 0, NoUser, {"division_admin"},
                         chain[1], chain[2])
          /\ UNCHANGED <<divisions, divMemberships>>
     ELSE /\ last' = Req("deleteDivision", u, w, d, 0, NoUser, {"division_admin"},
                         "service", "OK")
          /\ divMemberships' = DeleteManyDivMemberships(divMemberships, d)
          /\ divisions' = [x \in (DOMAIN divisions) \ {d} |-> divisions[x]]
  /\ UNCHANGED <<workspaces, wsCount, divCount, memberships, invites, tokCount, now,
                 inflight>>

\* memberIdentifier is a user id or an email (User.findOne({ email }))
MemberIdents == Users \cup {"e2", "E2", "e3"}
ResolveMember(ident) == IF ident \in Emails THEN UserOfEmail(ident) ELSE ident

\* mutant: the checks without the test of the workspace Membership
AddMemberChecks_NoWorkspaceTest(m, w, d) ==
  IF m = NoUser THEN "BadRequest"
  ELSE IF \E i \in 1..Len(divMemberships[<<m, d>>]) :
            /\ divMemberships[<<m, d>>][i].workspace = w
            /\ divMemberships[<<m, d>>][i].status = "active"
  THEN "BadRequest"
  ELSE "OK"

\* addMemberToDivision: "OK" or the kind of the error thrown
AddMemberChecks(m, w, d) ==
  IF m = NoUser
     \/ ~\E i \in 1..Len(memberships[<<m, w>>]) : memberships[<<m, w>>][i].status = "active"
  THEN "BadRequest"
  ELSE IF \E i \in 1..Len(divMemberships[<<m, d>>]) :
            /\ divMemberships[<<m, d>>][i].workspace = w
            /\ divMemberships[<<m, d>>][i].status = "active"
  THEN "BadRequest"
  ELSE "OK"

\* POST /workspace/:workspaceId/divisions/:divisionId/members
AddMemberToDivision(u, w, d, ident) ==
  LET chain == DivisionChain(u, w, d, {"division_admin"})
      m == ResolveMember(ident)
  IN
  /\ IF chain[2] # "next"
     THEN /\ last' = Req("addMember", u, w, d, 0, m, {"division_admin"}, chain[1], chain[2])
          /\ UNCHANGED divMemberships
     ELSE /\ last' = Req("addMember", u, w, d, 0, m, {"division_admin"}, "service",
                         AddMemberChecks(m, w, d))
          /\ IF AddMemberChecks(m, w, d) = "OK"
             THEN divMemberships' = CreateDivMembership(divMemberships, m, w, d,
                                                        <<"division_member">>)
             ELSE UNCHANGED divMemberships
  /\ UNCHANGED <<workspaces, wsCount, divisions, divCount, memberships, invites,
                 tokCount, now, inflight>>

\* DivisionMembership.findOne({ user, workspace, division }): index of the oldest
\* matching document (0: none)
FindDivMemberIndex(m, w, d) ==
  IF m = NoUser THEN 0
  ELSE LET hits == { i \in 1..Len(divMemberships[<<m, d>>]) :
                       divMemberships[<<m, d>>][i].workspace = w }
       IN IF hits = {} THEN 0 ELSE CHOOSE i \in hits : \A j \in hits : i <= j

\* DELETE /workspace/:workspaceId/divisions/:divisionId/members
RemoveMemberFromDivision(u, w, d, ident) ==
  LET chain == DivisionChain(u, w, d, {"division_admin"})
      m == ResolveMember(ident)
  IN
  /\ IF chain[2] # "next"
     THEN /\ last' = Req("removeDivMember", u, w, d, 0, m, {"division_admin"},
                         chain[1], chain[2])
          /\ UNCHANGED divMemberships
     ELSE IF FindDivMemberIndex(m, w, d) = 0
     THEN /\ last' = Req("removeDivMember", u, w, d, 0, m, {"division_admin"},
                         "service", "BadRequest")
          /\ UNCHANGED divMemberships
     ELSE /\ last' = Req("removeDivMember", u, w, d, 0, m, {"division_admin"},
                         "service", "OK")
          /\ divMemberships' = [divMemberships EXCEPT ![<<m, d>>] =
                                  RemoveAt(@, FindDivMemberIndex(m, w, d))]
  /\ UNCHANGED <<workspaces, wsCount, divisions, divCount, memberships, invites,
                 tokCount, now, inflight>>

(* ------------------------- workspace members -------------------------- *)
\* integer values of ?page= and ?limit=: around zero, and around the largest limit
PageInputs == (-MaxQuery)..MaxQuery
LimitInputs == ((-MaxQuery)..MaxQuery) \cup ((MAX_LIMIT - MaxQuery)..(MAX_LIMIT + MaxQuery))

\* Number(q) || d for an integer q: 0 is falsy, every other integer is kept
OrDefault(q, d) == IF q = 0 THEN d ELSE q

\* const page = Math.max(Number(req.query.page) || 1, 1)
EffectivePage(q) ==
  IF OrDefault(q, DEFAULT_PAGE) >= 1 THEN OrDefault(q, DEFAULT_PAGE) ELSE 1

\* const limit = Math.min(Number(req.query.limit) || 20, 100)
EffectiveLimit(q) ==
  IF OrDefault(q, DEFAULT_LIMIT) <= MAX_LIMIT THEN OrDefault(q, DEFAULT_LIMIT) ELSE MAX_LIMIT

\* Membership.countDocuments({ workspace, status: 'active' })
CountActiveMembers(w) ==
  Cardinality({ x \in Users \X (1..MaxTokens + 1) :
                  /\ x[2] <= Len(memberships[<<x[1], w>>])
                  /\ memberships[<<x[1], w>>][x[2]].status = "active" })

\* GET /workspace/:workspaceId/members?page=&limit= : the page, limit and total of
\* the response, and the skip handed to the query
AllMembers(u, w, page, limit) ==
  LET guard == workspaceScope(u, w, {}) IN
  /\ IF guard # "next"
     THEN last' = Req("allMembers", u, w, 0, 0, NoUser, {}, "workspace", guard)
     ELSE last' = [op |-> "allMembers", user |-> u, ws |-> w, div |-> 0, token |-> 0,
                   target |-> NoUser, allowed |-> {}, stage |-> "service", res |-> "OK",
                   pageQuery |-> page, limitQuery |-> limit,
                   page |-> EffectivePage(page), limit |-> EffectiveLimit(limit),
                   skip |-> (EffectivePage(page) - 1) * EffectiveLimit(limit),
                   total |-> CountActiveMembers(w)]
  /\ UNCHANGED <<dbVars, now, inflight>>

\* DELETE /workspace/:workspaceId/members/:memberId
RemoveWorkspaceMember(u, w, m) ==
  LET guard == workspaceScope(u, w, {"admin"}) IN
  /\ IF guard # "next"
     THEN /\ last' = Req("removeMember", u, w, 0, 0, m, {"admin"}, "workspace", guard)
          /\ UNCHANGED memberships
     ELSE IF u = m \/ memberships[<<m, w>>] = << >>
     THEN /\ last' = Req("removeMember", u, w, 0, 0, m, {"admin"}, "service", "BadRequest")
          /\ UNCHANGED memberships
     ELSE /\ last' = Req("removeMember", u, w, 0, 0, m, {"admin"}, "service", "OK")
          /\ memberships' = [memberships EXCEPT ![<<m, w>>] = RemoveAt(@, 1)]
  /\ UNCHANGED <<workspaces, wsCount, divisions, divCount, divMemberships, invites,
                 tokCount, now, inflight>>


(* -------------------------- role assignment --------------------------- *)
\* role ids a request may carry: the tenant's first role, its second, and an id
\* no tenant has handed out
RoleIdInputs == {1, 2, 9}

\* roles.filter(role => role._id.equals(roleId)): the names of the matching roles
RoleNamesById(roles, roleId) ==
  LET RECURSIVE pick(_)
      pick(rs) == IF rs = << >> THEN << >>
                  ELSE IF Head(rs).id = roleId THEN <<Head(rs).name>> \o pick(Tail(rs))
                       ELSE pick(Tail(rs))
  IN pick(roles)

\* POST /workspace/:workspaceId/roles/:userId/assign/:roleId
\* role[0].name throws a TypeError when no role has the id
AssignWorkspaceRole(u, w, m, roleId) ==
  LET guard == workspaceScope(u, w, {"admin"}) IN
  /\ IF guard # "next"
     THEN /\ last' = Req("assignRole", u, w, 0, roleId, m, {"admin"}, "workspace", guard)
          /\ UNCHANGED memberships
     ELSE IF RoleNamesById(workspaces[w].roles, roleId) = << >>
     THEN /\ last' = Req("assignRole", u, w, 0, roleId, m, {"admin"}, "service", "Internal")
          /\ UNCHANGED memberships
     ELSE IF memberships[<<m, w>>] = << >>
     THEN /\ last' = Req("assignRole", u, w, 0, roleId, m, {"admin"}, "service", "NotFound")
          /\ UNCHANGED memberships
     ELSE /\ last' = Req("assignRole", u, w, 0, roleId, m, {"admin"}, "service", "OK")
          /\ memberships' = [memberships EXCEPT ![<<m, w>>][1].roles =
                               AddToSet(@, RoleNamesById(workspaces[w].roles, roleId)[1])]
  /\ UNCHANGED <<workspaces, wsCount, divisions, divCount, divMemberships, invites,
                 tokCount, now, inflight>>

\* DELETE /workspace/:workspaceId/roles/:userId/unassign/:roleId
UnassignWorkspaceRole(u, w, m, roleId) ==
  LET guard == workspaceScope(u, w, {"admin"}) IN
  /\ IF guard # "next"
     THEN /\ last' = Req("unassignRole", u, w, 0, roleId, m, {"admin"}, "workspace", guard)
          /\ UNCHANGED memberships
     ELSE IF RoleNamesById(workspaces[w].roles, roleId) = << >>
     THEN /\ last' = Req("unassignRole", u, w, 0, roleId, m, {"admin"}, "service", "Internal")
          /\ UNCHANGED memberships
     ELSE IF memberships[<<m, w>>] = << >>
     THEN /\ last' = Req("unassignRole", u, w, 0, roleId, m, {"admin"}, "service", "NotFound")
          /\ UNCHANGED memberships
     ELSE /\ last' = Req("unassignRole", u, w, 0, roleId, m, {"admin"}, "service", "OK")
          /\ memberships' = [memberships EXCEPT ![<<m, w>>][1].roles =
                               Without(@, RoleNamesById(workspaces[w].roles, roleId)[1])]
  /\ UNCHANGED <<workspaces, wsCount, divisions, divCount, divMemberships, invites,
                 tokCount, now, inflight>>

\* division assignRoleToUser / unassignRoleFromUser: "OK" or the kind of the error
\* thrown; assign is TRUE for assign, FALSE for unassign
DivisionRoleChecks(m, w, d, roleId, assign) ==
  IF FindDivMemberIndex(m, w, d) = 0 THEN "NotFound"
  ELSE IF d \notin DOMAIN divisions THEN "NotFound"
  ELSE IF RoleNamesById(divisions[d].roles, roleId) = << >> THEN "BadRequest"
  ELSE LET held == RoleNamesById(divisions[d].roles, roleId)[1]
                     \in Range(divMemberships[<<m, d>>][FindDivMemberIndex(m, w, d)].roles)
       IN IF assign = held THEN "BadRequest" ELSE "OK"

\* POST /workspace/:workspaceId/divisions/:divisionId/roles/:userId/assign/:roleId
AssignDivisionRole(u, w, d, m, roleId) ==
  LET chain == DivisionChain(u, w, d, {"division_admin"})
      res == DivisionRoleChecks(m, w, d, roleId, TRUE)
  IN
  /\ IF chain[2] # "next"
     THEN /\ last' = Req("assignDivRole", u, w, d, roleId, m, {"division_admin"},
                         chain[1], chain[2])
          /\ UNCHANGED divMemberships
     ELSE /\ last' = Req("assignDivRole", u, w, d, roleId, m, {"division_admin"},
                         "service", res)
          /\ IF res = "OK"
             THEN divMemberships' =
                    [divMemberships EXCEPT ![<<m, d>>][FindDivMemberIndex(m, w, d)].roles =
                       Dedup(Append(@, RoleNamesById(divisions[d].roles, roleId)[1]))]
             ELSE UNCHANGED divMemberships
  /\ UNCHANGED <<workspaces, wsCount, divisions, divCount, memberships, invites,
                 tokCount, now, inflight>>

\* DELETE /workspace/:workspaceId/divisions/:divisionId/roles/:userId/unassign/:roleId
UnassignDivisionRole(u, w, d, m, roleId) ==
  LET chain == DivisionChain(u, w, d, {"division_admin"})
      res == DivisionRoleChecks(m, w, d, roleId, FALSE)
  IN
  /\ IF chain[2] # "next"
     THEN /\ last' = Req("unassignDivRole", u, w, d, roleId, m, {"division_admin"},
                         chain[1], chain[2])
          /\ UNCHANGED divMemberships
     ELSE /\ last' = Req("unassignDivRole", u, w, d, roleId, m, {"division_admin"},
                         "service", res)
          /\ IF res = "OK"
             THEN divMemberships' =
                    [divMemberships EXCEPT ![<<m, d>>][FindDivMemberIndex(m, w, d)].roles =
                       Dedup(Without(@, RoleNamesById(divisions[d].roles, roleId)[1]))]
             ELSE UNCHANGED divMemberships
  /\ UNCHANGED <<workspaces, wsCount, divisions, divCount, memberships, invites,
                 tokCount, now, inflight>>

(* --------------------------- role registry ---------------------------- *)
\* request bodies of the role routes carry a name and a permission list (the
\* validators require a non-empty name and at least one permission);
\* a field the division update body leaves out
NoName == ""
NoPerms == << >>

\* the _id the store gives a new array element: one no element of the array has
NewRoleId(roles) ==
  LET ids == { roles[i].id : i \in 1..Len(roles) }
  IN IF ids = {} THEN 1 ELSE 1 + CHOOSE m \in ids : \A x \in ids : x <= m

\* the index of the first role with the id (0: none)
FirstRoleIndex(roles, roleId) ==
  LET hits == { i \in 1..Len(roles) : roles[i].id = roleId }
  IN IF hits = {} THEN 0 ELSE CHOOSE i \in hits : \A j \in hits : i <= j

\* the roles without those of the id
RECURSIVE PullRole(_, _)
PullRole(roles, roleId) ==
  IF roles = << >> THEN << >>
  ELSE IF Head(roles).id = roleId THEN PullRole(Tail(roles), roleId)
       ELSE <<Head(roles)>> \o PullRole(Tail(roles), roleId)

\* POST /workspace/:workspaceId/roles
AddWorkspaceRole(u, w, name, perms) ==
  LET guard == workspaceScope(u, w, {"admin"}) IN
  /\ IF guard # "next"
     THEN /\ last' = Req("addRole", u, w, 0, 0, name, {"admin"}, "workspace", guard)
          /\ UNCHANGED workspaces
     ELSE /\ Len(workspaces[w].roles) < MaxRoles
          /\ workspaces' = [workspaces EXCEPT ![w].roles =
                              Append(@, [id |-> NewRoleId(@), name |-> name,
                                         permissions |-> perms])]
          /\ last' = Req("addRole", u, w, 0, NewRoleId(workspaces[w].roles), name,
                         {"admin"}, "service", "OK")
  /\ UNCHANGED <<wsCount, divisions, divCount, memberships, divMemberships, invites,
                 tokCount, now, inflight>>

\* PUT /workspace/:workspaceId/roles/:roleId
UpdateWorkspaceRole(u, w, roleId, name, perms) ==
  LET guard == workspaceScope(u, w, {"admin"}) IN
  /\ IF guard # "next"
     THEN /\ last' = Req("updateRole", u, w, 0, roleId, name, {"admin"}, "workspace", guard)
          /\ UNCHANGED workspaces
     ELSE IF FirstRoleIndex(workspaces[w].roles, roleId) = 0
     THEN /\ last' = Req("updateRole", u, w, 0, roleId, name, {"admin"}, "service",
                         "NotFound")
          /\ UNCHANGED workspaces
     ELSE /\ workspaces' =
               [workspaces EXCEPT ![w].roles[FirstRoleIndex(workspaces[w].roles, roleId)] =
                  [id |-> roleId, name |-> name, permissions |-> perms]]
          /\ last' = Req("updateRole", u, w, 0, roleId, name, {"admin"}, "service", "OK")
  /\ UNCHANGED <<wsCount, divisions, divCount, memberships, divMemberships, invites,
                 tokCount, now, inflight>>

\* mutant: the removal that also strips the role's name from the Memberships
RemoveWorkspaceRole_Cascade(u, w, roleId) ==
  LET guard == workspaceScope(u, w, {"admin"})
      names == Range(RoleNamesById(workspaces[w].roles, roleId))
      RECURSIVE strip(_)
      strip(rs) == IF rs = << >> THEN << >>
                   ELSE IF Head(rs) \in names THEN strip(Tail(rs))
                        ELSE <<Head(rs)>> \o strip(Tail(rs))
  IN
  /\ IF guard # "next"
     THEN /\ last' = Req("removeRole", u, w, 0, roleId, NoUser, {"admin"}, "workspace", guard)
          /\ UNCHANGED <<workspaces, memberships>>
     ELSE /\ workspaces' = [workspaces EXCEPT ![w].roles = PullRole(@, roleId)]
          /\ memberships' =
               [k \in DOMAIN memberships |->
                  IF k[2] = w
                  THEN [i \in 1..Len(memberships[k]) |->
                          [memberships[k][i] EXCEPT !.roles = strip(@)]]
                  ELSE memberships[k]]
          /\ last' = Req("removeRole", u, w, 0, roleId, NoUser, {"admin"}, "service", "OK")
  /\ UNCHANGED <<wsCount, divisions, divCount, divMemberships, invites,
                 tokCount, now, inflight>>

\* DELETE /workspace/:workspaceId/roles/:roleId
RemoveWorkspaceRole(u, w, roleId) ==
  LET guard == workspaceScope(u, w, {"admin"}) IN
  /\ IF guard # "next"
     THEN /\ last' = Req("removeRole", u, w, 0, roleId, NoUser, {"admin"}, "workspace", guard)
          /\ UNCHANGED workspaces
     ELSE /\ workspaces' = [workspaces EXCEPT ![w].roles = PullRole(@, roleId)]
          /\ last' = Req("removeRole", u, w, 0, roleId, NoUser, {"admin"}, "service", "OK")
  /\ UNCHANGED <<wsCount, divisions, divCount, memberships, divMemberships, invites,
                 tokCount, now, inflight>>

\* division.save() with divisionSchema.pre('save'): an empty role list is seeded
\* with the base roles
SaveDivisionRoles(roles) == IF roles = << >> THEN DefaultDivisionRoles ELSE roles

\* POST /workspace/:workspaceId/divisions/:divisionId/roles
AddDivisionRole(u, w, d, name, perms) ==
  LET chain == DivisionChain(u, w, d, {"division_admin"}) IN
  /\ IF chain[2] # "next"
     THEN /\ last' = Req("addDivRole", u, w, d, 0, name, {"division_admin"},
                         chain[1], chain[2])
          /\ UNCHANGED divisions
     ELSE IF \E i \in 1..Len(divisions[d].roles) : divisions[d].roles[i].name = name
     THEN /\ last' = Req("addDivRole", u, w, d, 0, name, {"division_admin"},
                         "service", "Internal")
          /\ UNCHANGED divisions
     ELSE /\ Len(divisions[d].roles) < MaxRoles
          /\ divisions' = [divisions EXCEPT ![d].roles =
                             SaveDivisionRoles(Append(@, [id |-> NewRoleId(@), name |-> name,
                                                          permissions |-> perms]))]
          /\ last' = Req("addDivRole", u, w, d, NewRoleId(divisions[d].roles), name,
                         {"division_admin"}, "service", "OK")
  /\ UNCHANGED <<workspaces, wsCount, divCount, memberships, divMemberships, invites,
                 tokCount, now, inflight>>

\* PUT /workspace/:workspaceId/divisions/:divisionId/roles/:roleId
\* (name = NoName, perms = NoPerms: the body leaves the field out)
UpdateDivisionRole(u, w, d, roleId, name, perms) ==
  LET chain == DivisionChain(u, w, d, {"division_admin"}) IN
  /\ IF chain[2] # "next"
     THEN /\ last' = Req("updateDivRole", u, w, d, roleId, name, {"division_admin"},
                         chain[1], chain[2])
          /\ UNCHANGED divisions
     ELSE IF FirstRoleIndex(divisions[d].roles, roleId) = 0
     THEN /\ last' = Req("updateDivRole", u, w, d, roleId, name, {"division_admin"},
                         "service", "Internal")
          /\ UNCHANGED divisions
     ELSE LET i == FirstRoleIndex(divisions[d].roles, roleId)
              cur == divisions[d].roles[i]
          IN /\ divisions' =
                  [divisions EXCEPT ![d].roles =
                     SaveDivisionRoles(
                       [@ EXCEPT ![i] =
                          [id |-> roleId,
                           name |-> IF name # NoName THEN name ELSE cur.name,
                           permissions |-> IF perms # NoPerms THEN perms
                                           ELSE cur.permissions]])]
             /\ last' = Req("updateDivRole", u, w, d, roleId, name, {"division_admin"},
                            "service", "OK")
  /\ UNCHANGED <<workspaces, wsCount, divCount, memberships, divMemberships, invites,
                 tokCount, now, inflight>>

\* DELETE /workspace/:workspaceId/divisions/:divisionId/roles/:roleId
RemoveDivisionRole(u, w, d, roleId) ==
  LET chain == DivisionChain(u, w, d, {"division_admin"}) IN
  /\ IF chain[2] # "next"
     THEN /\ last' = Req("removeDivRole", u, w, d, roleId, NoUser, {"division_admin"},
                         chain[1], chain[2])
          /\ UNCHANGED divisions
     ELSE IF FirstRoleIndex(divisions[d].roles, roleId) = 0
     THEN /\ last' = Req("removeDivRole", u, w, d, roleId, NoUser, {"division_admin"},
                         "service", "Internal")
          /\ UNCHANGED divisions
     ELSE /\ divisions' = [divisions EXCEPT ![d].roles =
                             SaveDivisionRoles(PullRole(@, roleId))]
          /\ last' = Req("removeDivRole", u, w, d, roleId, NoUser, {"division_admin"},
                         "service", "OK")
  /\ UNCHANGED <<workspaces, wsCount, divCount, memberships, divMemberships, invites,
                 tokCount, now, inflight>>

(* ---------------- role registry, the store refusing the write ---------- *)
\* the outcome of a request whose write the store refused
WriteFailedReq(op, user, ws, div, token, target, allowed, res) ==
  [op |-> op, user |-> user, ws |-> ws, div |-> div, token |-> token,
   target |-> target, allowed |-> allowed, stage |-> "service", res |-> res,
   writeFailed |-> TRUE]

\* addWorkspaceRole: await Workspace.findByIdAndUpdate(...) rejects
AddWorkspaceRoleWriteFails(u, w, name, perms) ==
  LET guard == workspaceScope(u, w, {"admin"}) IN
  /\ guard = "next"
  /\ last' = WriteFailedReq("addRole", u, w, 0, 0, name, {"admin"}, "Internal")
  /\ UNCHANGED <<dbVars, now, inflight>>

\* updateWorkspaceRole: await Workspace.findOneAndUpdate(...) rejects
UpdateWorkspaceRoleWriteFails(u, w, roleId, name, perms) ==
  LET guard == workspaceScope(u, w, {"admin"}) IN
  /\ guard = "next"
  /\ last' = WriteFailedReq("updateRole", u, w, 0, roleId, name, {"admin"}, "Internal")
  /\ UNCHANGED <<dbVars, now, inflight>>

\* removeWorkspaceRole: await Workspace.findOneAndUpdate(...) rejects
RemoveWorkspaceRoleWriteFails(u, w, roleId) ==
  LET guard == workspaceScope(u, w, {"admin"}) IN
  /\ guard = "next"
  /\ last' = WriteFailedReq("removeRole", u, w, 0, roleId, NoUser, {"admin"}, "Internal")
  /\ UNCHANGED <<dbVars, now, inflight>>

\* addRoleToDivision: the read and the name test pass, division.save() is called
\* without await and rejects after the role list has been returned
AddDivisionRoleWriteFails(u, w, d, name, perms) ==
  LET chain == DivisionChain(u, w, d, {"division_admin"}) IN
  /\ chain[2] = "next"
  /\ ~\E i \in 1..Len(divisions[d].roles) : divisions[d].roles[i].name = name
  /\ last' = WriteFailedReq("addDivRole", u, w, d, NewRoleId(divisions[d].roles), name,
                            {"division_admin"}, "OK")
  /\ UNCHANGED <<dbVars, now, inflight>>

\* updateRoleInDivision: the role is found, division.save() is called without
\* await and rejects after the role list has been returned
UpdateDivisionRoleWriteFails(u, w, d, roleId, name, perms) ==
  LET chain == DivisionChain(u, w, d, {"division_admin"}) IN
  /\ chain[2] = "next"
  /\ FirstRoleIndex(divisions[d].roles, roleId) # 0
  /\ last' = WriteFailedReq("updateDivRole", u, w, d, roleId, name,
                            {"division_admin"}, "OK")
  /\ UNCHANGED <<dbVars, now, inflight>>

\* removeRoleFromDivision: the role is found, division.save() is called without
\* await and rejects after the role list has been returned
RemoveDivisionRoleWriteFails(u, w, d, roleId) ==
  LET chain == DivisionChain(u, w, d, {"division_admin"}) IN
  /\ chain[2] = "next"
  /\ FirstRoleIndex(divisions[d].roles, roleId) # 0
  /\ last' = WriteFailedReq("removeDivRole", u, w, d, roleId, NoUser,
                            {"division_admin"}, "OK")
  /\ UNCHANGED <<dbVars, now, inflight>>

\* acceptWorkspaceInvite: Membership.create() has succeeded, await invite.save()
\* rejects and the error reaches the caller; the Membership stays stored
\* (the store refuses the save only while the pair has at most MaxRefusedSaves
\* Membership documents, which keeps the collection finite)
AcceptSaveWriteFails(r) ==
  /\ r \in inflight /\ r.pc = "save"
  /\ r.token \in DOMAIN invites
  /\ Len(memberships[<<r.user, r.workspace>>]) <= MaxRefusedSaves
  /\ inflight' = inflight \ {r}
  /\ last' = WriteFailedReq("accept", r.user, 0, 0, r.token, NoUser, {}, "Internal")
  /\ UNCHANGED <<dbVars, now>>

(* --------------------------- specifications --------------------------- *)
\* the scope resolver in front of read-only handlers, over the states that
\* workspace and division creation, invitations and direct adds produce:
\* u1 founds workspaces and invites u2, u1 or the superuser found divisions,
\* u1 adds u2 to them
ScopeNext ==
  \/ \E n \in WsNames : CreateWorkspace("u1", n)
  \/ \E w \in WsIds : SendInvite("u1", w, "e2")
  \/ \E t \in Tokens : AcceptInvite("u2", t)
  \/ \E u \in {"u1", "su"}, w \in WsIds : CreateDivision(u, w, "X")
  \/ \E w \in WsIds, d \in DivIds : AddMemberToDivision("u1", w, d, "u2")
  \/ \E u \in Users, w \in WsIds, a \in WsAllowedSets : WorkspaceScopeCheck(u, w, a)
  \/ \E u \in Users, w \in WsIds, d \in DivIds, a \in DivAllowedSets :
       DivisionScopeCheck(u, w, d, a)

SpecScope == Init /\ [][ScopeNext]_vars

\* the invitation workflow, every request served whole
InviteNext ==
  \/ \E n \in WsNames : CreateWorkspace("u1", n)
  \/ \E u \in {"u1", "u2"}, w \in WsIds, e \in {"e2", "E2", "e3"} : SendInvite(u, w, e)
  \/ \E u \in {"u1", "u2"}, t \in Tokens : AcceptInvite(u, t)
  \/ \E u \in {"u1", "u2"}, t \in Tokens : DeclineInvite(u, t)
  \/ \E u \in {"u1", "u2"}, w \in WsIds, t \in Tokens : DeleteInvite(u, w, t)
  \/ \E u \in {"u1", "u2"}, w \in WsIds : RemoveWorkspaceMember(u, w, "u2")
  \/ Tick

SpecInvite == Init /\ [][InviteNext]_vars

\* divisions of one workspace and the requests guarded by divisionScope
DivisionNext ==
  \/ CreateWorkspace("u1", "A")
  \/ SendInvite("u1", 1, "e2")
  \/ \E t \in Tokens : AcceptInvite("u2", t)
  \/ \E u \in {"u1", "u2", "su"}, n \in DivNames : CreateDivision(u, 1, n)
  \/ \E u \in Users, d \in DivIds, n \in DivNames : UpdateDivision(u, 1, d, n)
  \/ \E u \in {"u1", "u2"}, d \in DivIds : AddMemberToDivision(u, 1, d, "e2")
  \/ \E d \in DivIds : RemoveMemberFromDivision("u1", 1, d, "u2")
  \/ \E d \in DivIds, r \in RoleIdInputs : AssignDivisionRole("u1", 1, d, "u2", r)
  \/ \E d \in DivIds, r \in RoleIdInputs : UnassignDivisionRole("u1", 1, d, "u2", r)

SpecDivision == Init /\ [][DivisionNext]_vars

\* membership lifecycle, every request served whole
MemberNext ==
  \/ CreateWorkspace("u1", "A")
  \/ \E e \in {"e2", "E2"} : SendInvite("u1", 1, e)
  \/ \E t \in Tokens : AcceptInvite("u2", t)
  \/ \E t \in Tokens : DeclineInvite("u2", t)
  \/ \E t \in Tokens : DeleteInvite("u1", 1, t)
  \/ RemoveWorkspaceMember("u1", 1, "u2")
  \/ \E r \in {2, 9} : AssignWorkspaceRole("u1", 1, "u2", r)
  \/ \E r \in {2, 4} : UnassignWorkspaceRole("u1", 1, "u2", r)
  \/ CreateDivision("u1", 1, "X")
  \/ \E i \in {"u2", "E2"} : AddMemberToDivision("u1", 1, 1, i)
  \/ RemoveMemberFromDivision("u1", 1, 1, "u2")
  \/ AssignDivisionRole("u1", 1, 1, "u2", 1)
  \/ UnassignDivisionRole("u1", 1, 1, "u2", 2)

Spec == Init /\ [][MemberNext]_vars

\* invitation accepts of concurrent requests, interleaved at their awaits
RaceNext ==
  \/ \E n \in WsNames : CreateWorkspace("u1", n)
  \/ \E w \in WsIds : SendInvite("u1", w, "e2")
  \/ \E u \in {"u1", "u2"}, t \in Tokens : AcceptRead(u, t)
  \/ \E r \in inflight : AcceptCreate(r)
  \/ \E r \in inflight : AcceptSave(r)
  \/ \E t \in Tokens : DeclineInvite("u2", t)
  \/ Tick

SpecRace == Init /\ [][RaceNext]_vars

\* invitation sends of concurrent requests, interleaved at their awaits
SendRaceNext ==
  \/ \E n \in WsNames : CreateWorkspace("u1", n)
  \/ \E u \in {"u1", "u2"}, w \in WsIds, e \in {"e2", "e3"} : SendFind(u, w, e)
  \/ \E r \in inflight : SendDelete(r)
  \/ \E r \in inflight : SendCreate(r)
  \/ \E t \in Tokens : AcceptInvite("u2", t)
  \/ \E u \in {"u1", "u2"}, t \in Tokens : DeclineInvite(u, t)
  \/ \E w \in WsIds, t \in Tokens : DeleteInvite("u1", w, t)
  \/ Tick

SpecSendRace == Init /\ [][SendRaceNext]_vars

\* invitations sent, superseded and answered; none deleted by an admin
SupersedeNext ==
  \/ \E n \in WsNames : CreateWorkspace("u1", n)
  \/ \E w \in WsIds, e \in {"e2", "e3"} : SendInvite("u1", w, e)
  \/ \E u \in {"u1", "u2"}, t \in Tokens : AcceptInvite(u, t)
  \/ \E u \in {"u1", "u2"}, t \in Tokens : DeclineInvite(u, t)
  \/ \E w \in WsIds : RemoveWorkspaceMember("u1", w, "u2")
  \/ Tick

SpecSupersede == Init /\ [][SupersedeNext]_vars

\* accepts and declines of concurrent requests, interleaved at their awaits
AnswerRaceNext ==
  \/ \E n \in WsNames : CreateWorkspace("u1", n)
  \/ \E w \in WsIds, e \in {"e2", "e3"} : SendInvite("u1", w, e)
  \/ \E t \in Tokens : AcceptRead("u2", t)
  \/ \E r \in inflight : AcceptCreate(r)
  \/ \E r \in inflight : AcceptSave(r)
  \/ \E t \in Tokens : DeclineRead("u2", t)
  \/ \E r \in inflight : DeclineSave(r)
  \/ Tick

SpecAnswerRace == Init /\ [][AnswerRaceNext]_vars

\* the role registry of one workspace and one division, role assignment and
\* the scope checks that read the assigned names
RolesNext ==
  \/ CreateWorkspace("u1", "A")
  \/ SendInvite("u1", 1, "e2")
  \/ AcceptInvite("u2", 1)
  \/ CreateDivision("u1", 1, "X")
  \/ AddMemberToDivision("u1", 1, 1, "u2")
  \/ \E p \in {<<"read">>, <<"read", "read">>} : AddWorkspaceRole("u1", 1, "user", p)
  \/ \E r \in {2, 9} : UpdateWorkspaceRole("u1", 1, r, "user", <<"read">>)
  \/ RemoveWorkspaceRole("u1", 1, 4)
  \/ \E r \in {4, 5} : AssignWorkspaceRole("u1", 1, "u2", r)
  \/ UnassignWorkspaceRole("u1", 1, "u2", 4)
  \/ AddDivisionRole("u1", 1, 1, "editor", <<"read", "read">>)
  \/ UpdateDivisionRole("u1", 1, 1, 2, "division_admin", NoPerms)
  \/ RemoveDivisionRole("u1", 1, 1, 2)
  \/ \E r \in {1, 2} : AssignDivisionRole("u1", 1, 1, "u2", r)
  \/ UnassignDivisionRole("u1", 1, 1, "u2", 2)
  \/ WorkspaceScopeCheck("u2", 1, {"user"})
  \/ DivisionScopeCheck("u2", 1, 1, {"division_member"})

SpecRoles == Init /\ [][RolesNext]_vars

\* member removal from a workspace and from a division, the remover included
\* among the targets
RemoveNext ==
  \/ CreateWorkspace("u1", "A")
  \/ SendInvite("u1", 1, "e2")
  \/ \E t \in Tokens : AcceptInvite("u2", t)
  \/ \E u \in {"u1", "su"}, n \in DivNames : CreateDivision(u, 1, n)
  \/ \E d \in DivIds : AddMemberToDivision("u1", 1, d, "u2")
  \/ \E u \in Users, m \in {"u1", "u2"} : RemoveWorkspaceMember(u, 1, m)
  \/ \E u \in {"u1", "u2"}, d \in DivIds, i \in {"u1", "u2", "e2"} :
       RemoveMemberFromDivision(u, 1, d, i)

SpecRemove == Init /\ [][RemoveNext]_vars

\* the life of tenants: workspaces and divisions created, renamed and deleted,
\* with the members that invitations and direct adds give them
TenantNext ==
  \/ \E n \in WsNames : CreateWorkspace("u1", n)
  \/ SendInvite("u1", 1, "e2")
  \/ AcceptInvite("u2", 1)
  \/ UpdateWorkspace("u1", 1, "B")
  \/ \E u \in {"u1", "u2"}, w \in WsIds : DeleteWorkspace(u, w)
  \/ \E w \in WsIds : CreateDivision("u1", w, "X")
  \/ \E d \in DivIds : UpdateDivision("su", 1, d, "Y")
  \/ \E d \in DivIds : AddMemberToDivision("u1", 1, d, "u2")
  \/ \E u \in {"u1", "u2"}, d \in DivIds : DeleteDivision(u, 1, d)

SpecTenant == Init /\ [][TenantNext]_vars

\* direct adds to divisions, of members, former members and strangers of the
\* owning workspace, by a division admin or the superuser
AddMemberNext ==
  \/ CreateWorkspace("u1", "A")
  \/ SendInvite("u1", 1, "e2")
  \/ \E t \in Tokens : AcceptInvite("u2", t)
  \/ RemoveWorkspaceMember("u1", 1, "u2")
  \/ \E u \in {"u1", "su"}, n \in DivNames : CreateDivision(u, 1, n)
  \/ \E u \in {"u1", "su"}, d \in DivIds, i \in {"u1", "u2", "E2", "e3"} :
       AddMemberToDivision(u, 1, d, i)
  \/ \E d \in DivIds : RemoveMemberFromDivision("u1", 1, d, "u2")

SpecAddMember == Init /\ [][AddMemberNext]_vars

\* the member list of one workspace, asked for with every page and limit
PagingNext ==
  \/ CreateWorkspace("u1", "A")
  \/ SendInvite("u1", 1, "e2")
  \/ AcceptInvite("u2", 1)
  \/ \E u \in {"u1", "u2"}, p \in PageInputs, l \in LimitInputs : AllMembers(u, 1, p, l)

SpecPaging == Init /\ [][PagingNext]_vars

\* the role registries of one workspace and one division, with a store that may
\* refuse any write
StoreNext ==
  \/ CreateWorkspace("u1", "A")
  \/ CreateDivision("u1", 1, "X")
  \/ \E n \in {"user", "editor"} : AddWorkspaceRole("u1", 1, n, <<"read">>)
  \/ \E r \in {2, 9} : UpdateWorkspaceRole("u1", 1, r, "editor", <<"read">>)
  \/ \E r \in {3, 9} : RemoveWorkspaceRole("u1", 1, r)
  \/ \E n \in {"editor", "division_member"} : AddDivisionRole("u1", 1, 1, n, <<"read">>)
  \/ \E r \in {2, 9} : UpdateDivisionRole("u1", 1, 1, r, "guest", NoPerms)
  \/ \E r \in {1, 2, 9} : RemoveDivisionRole("u1", 1, 1, r)
  \/ AddWorkspaceRoleWriteFails("u1", 1, "editor", <<"read">>)
  \/ \E r \in {2, 9} : UpdateWorkspaceRoleWriteFails("u1", 1, r, "editor", <<"read">>)
  \/ \E r \in {3, 9} : RemoveWorkspaceRoleWriteFails("u1", 1, r)
  \/ \E n \in {"editor", "division_member"} :
       AddDivisionRoleWriteFails("u1", 1, 1, n, <<"read">>)
  \/ \E r \in {2, 9} : UpdateDivisionRoleWriteFails("u1", 1, 1, r, "guest", NoPerms)
  \/ \E r \in {1, 2, 9} : RemoveDivisionRoleWriteFails("u1", 1, 1, r)

SpecStore == Init /\ [][StoreNext]_vars

\* members whose role names are assigned and taken away, down to none, in front
\* of the scope checks
GateNext ==
  \/ CreateWorkspace("u1", "A")
  \/ SendInvite("u1", 1, "e2")
  \/ AcceptInvite("u2", 1)
  \/ AssignWorkspaceRole("u1", 1, "u2", 2)
  \/ \E r \in {2, 4} : UnassignWorkspaceRole("u1", 1, "u2", r)
  \/ \E n \in DivNames : CreateDivision("u1", 1, n)
  \/ \E d \in DivIds : AddMemberToDivision("u1", 1, d, "u2")
  \/ \E d \in DivIds : AssignDivisionRole("u1", 1, d, "u2", 1)
  \/ \E d \in DivIds, r \in {1, 2} : UnassignDivisionRole("u1", 1, d, "u2", r)
  \/ \E u \in Users, a \in WsAllowedSets : WorkspaceScopeCheck(u, 1, a)
  \/ \E u \in Users, d \in DivIds, a \in DivAllowedSets : DivisionScopeCheck(u, 1, d, a)

SpecGate == Init /\ [][GateNext]_vars

\* workspace creation that may fail between its two writes, retried by the
\* creator and by others; the superuser renames and deletes what is left
RetryNext ==
  \/ \E u \in {"u1", "u2"}, n \in WsNames : CreateWorkspace(u, n)
  \/ \E u \in {"u1", "u2"}, n \in WsNames : CreateWorkspacePartial(u, n)
  \/ \E w \in WsIds, n \in WsNames : UpdateWorkspace("su", w, n)
  \/ \E u \in {"u1", "su"}, w \in WsIds : DeleteWorkspace(u, w)
  \/ \E u \in {"u1", "u2"}, w \in WsIds : WorkspaceScopeCheck(u, w, {"admin"})

SpecRetry == Init /\ [][RetryNext]_vars

\* invitations of one workspace to a registered and to an unregistered address,
\* answered by anyone, deleted and superseded
PendingNext ==
  \/ CreateWorkspace("u1", "A")
  \/ \E e \in {"e2", "e3"} : SendInvite("u1", 1, e)
  \/ \E u \in {"u1", "u2"}, t \in Tokens : AcceptInvite(u, t)
  \/ \E u \in {"u1", "u2"}, t \in Tokens : DeclineInvite(u, t)
  \/ \E t \in Tokens : DeleteInvite("u1", 1, t)
  \/ Tick

SpecPending == Init /\ [][PendingNext]_vars

\* who administers a workspace: the founder invites a second actor, and both
\* remove members and assign and unassign the 'admin' and 'user' roles, each
\* other's and their own
AdminNext ==
  \/ CreateWorkspace("u1", "A")
  \/ SendInvite("u1", 1, "e2")
  \/ \E t \in Tokens : AcceptInvite("u2", t)
  \/ \E u \in {"u1", "u2"}, m \in {"u1", "u2"} : RemoveWorkspaceMember(u, 1, m)
  \/ \E u \in {"u1", "u2"}, m \in {"u1", "u2"}, r \in {1, 4} :
       AssignWorkspaceRole(u, 1, m, r)
  \/ \E u \in {"u1", "u2"}, m \in {"u1", "u2"}, r \in {1, 4} :
       UnassignWorkspaceRole(u, 1, m, r)

SpecAdmin == Init /\ [][AdminNext]_vars

\* one invitee answering invitations to one workspace: accepts and declines
\* interleaved at their awaits, the store free to refuse the status write of
\* an accept
ProduceNext ==
  \/ CreateWorkspace("u1", "A")
  \/ SendInvite("u1", 1, "e2")
  \/ \E t \in Tokens : AcceptRead("u2", t)
  \/ \E r \in inflight : AcceptCreate(r)
  \/ \E r \in inflight : AcceptSave(r)
  \/ \E r \in inflight : AcceptSaveWriteFails(r)
  \/ \E t \in Tokens : DeclineRead("u2", t)
  \/ \E r \in inflight : DeclineSave(r)

SpecProduce == Init /\ [][ProduceNext]_vars

\* division names across two workspaces: the founder of both creates divisions
\* in them and a superuser renames them
NamesNext ==
  \/ \E n \in WsNames : CreateWorkspace("u1", n)
  \/ \E w \in WsIds, n \in DivNames : CreateDivision("u1", w, n)
  \/ \E w \in WsIds, d \in DivIds, n \in DivNames : UpdateDivision("su", w, d, n)

SpecNames == Init /\ [][NamesNext]_vars

(* ------------------------------ claims -------------------------------- *)
\* required-role sets the universally quantified forms range over
RoleStrings == {"admin", "user", "division_admin", "division_member"}
AnyAllowed == SUBSET RoleStrings

\* an active Membership, as the scope middlewares read it
ActiveWsMember(u, w) ==
  FindMembership(u, w) # << >> /\ Head(FindMembership(u, w)).status = "active"
ActiveDivMember(u, d) ==
  FindDivMembership(u, d) # << >> /\ Head(FindDivMembership(u, d)).status = "active"

\* C1: for every existing workspace, and every existing division addressed through
\* the path of its owning workspace, the scope check of a superuser ('ostad')
\* succeeds for every required-role set, with or without a Membership.
C1_SuperuserOverride ==
  /\ \A u \in Users, a \in AnyAllowed :
       GlobalRole(u) = "ostad" =>
         /\ \A w \in DOMAIN workspaces : workspaceScope(u, w, a) = "next"
         /\ \A d \in DOMAIN divisions :
              divisions[d].workspace \in DOMAIN workspaces =>
                DivisionChain(u, divisions[d].workspace, d, a) = <<"division", "next">>
  /\ (/\ last.op \in {"workspaceScope", "divisionScope"}
      /\ GlobalRole(last.user) = "ostad"
      /\ last.ws \in DOMAIN workspaces
      /\ last.op = "divisionScope" =>
           last.div \in DOMAIN divisions /\ divisions[last.div].workspace = last.ws)
     => last.res = "next"

\* C1 witness: the superuser, holding no Membership at either level, passed a
\* division scope check that required a role
C1_Witness ==
  /\ last.op = "divisionScope" /\ last.user = "su" /\ last.res = "next"
  /\ last.allowed # {}
  /\ memberships[<<"su", last.ws>>] = << >>
  /\ divMemberships[<<"su", last.div>>] = << >>

\* C2: a non-superuser without a Membership on an existing tenant, or with one whose
\* status is not 'active', is refused Forbidden for every required-role set,
\* the empty one included.
C2_NonMemberForbidden ==
  /\ \A u \in Users, a \in AnyAllowed :
       GlobalRole(u) # "ostad" =>
         /\ \A w \in DOMAIN workspaces :
              ~ActiveWsMember(u, w) => workspaceScope(u, w, a) = "Forbidden"
         /\ \A d \in DOMAIN divisions :
              (divisions[d].workspace \in DOMAIN workspaces /\ ~ActiveDivMember(u, d)) =>
                DivisionChain(u, divisions[d].workspace, d, a)[2] = "Forbidden"
  /\ (/\ last.op = "workspaceScope"
      /\ GlobalRole(last.user) # "ostad"
      /\ last.ws \in DOMAIN workspaces
      /\ ~ActiveWsMember(last.user, last.ws))
     => last.res = "Forbidden"
  /\ (/\ last.op = "divisionScope"
      /\ GlobalRole(last.user) # "ostad"
      /\ last.div \in DOMAIN divisions
      /\ divisions[last.div].workspace = last.ws
      /\ ~ActiveDivMember(last.user, last.div))
     => last.res = "Forbidden"

\* C2 witness: a workspace member who is not a member of the division was refused
\* by divisionScope although no role was required
C2_Witness ==
  /\ last.op = "divisionScope" /\ last.stage = "division" /\ last.res = "Forbidden"
  /\ last.allowed = {}
  /\ GlobalRole(last.user) # "ostad"
  /\ ActiveWsMember(last.user, last.ws)
  /\ divMemberships[<<last.user, last.div>>] = << >>

\* C3: divisionScope, invoked with a path workspace other than the division's
\* owning workspace, answers BadRequest for every actor, superuser or not,
\* whatever Memberships the actor holds.
C3_CrossWorkspaceGuard ==
  /\ \A u \in Users, w \in WsIds, a \in AnyAllowed :
       \A d \in DOMAIN divisions :
         divisions[d].workspace # w => divisionScope(u, u, w, d, a) = "BadRequest"
  /\ (/\ last.op = "divisionScope" /\ last.stage = "division"
      /\ last.div \in DOMAIN divisions
      /\ divisions[last.div].workspace # last.ws)
     => last.res = "BadRequest"

\* C3 witness: an actor who is an active member of the division, and an admin of
\* the path workspace, was answered BadRequest
C3_Witness ==
  /\ last.op = "divisionScope" /\ last.stage = "division" /\ last.res = "BadRequest"
  /\ ActiveDivMember(last.user, last.div)
  /\ ActiveWsMember(last.user, last.ws)
  /\ divisions[last.div].workspace # last.ws

\* C4: for a non-superuser with an active Workspace-Membership and a non-empty
\* required set, workspaceScope succeeds iff the role names meet the required set
\* or contain 'admin', and answers Forbidden otherwise.
C4_WorkspaceRoleRule ==
  /\ \A u \in Users, w \in DOMAIN workspaces, a \in AnyAllowed :
       (GlobalRole(u) # "ostad" /\ ActiveWsMember(u, w) /\ a # {}) =>
         LET roles == Range(Head(FindMembership(u, w)).roles) IN
         workspaceScope(u, w, a) =
           IF roles \cap a # {} \/ "admin" \in roles THEN "next" ELSE "Forbidden"
  /\ (/\ last.op = "workspaceScope"
      /\ GlobalRole(last.user) # "ostad"
      /\ last.ws \in DOMAIN workspaces
      /\ ActiveWsMember(last.user, last.ws)
      /\ last.allowed # {})
     => LET roles == Range(Head(FindMembership(last.user, last.ws)).roles) IN
        last.res = IF roles \cap last.allowed # {} \/ "admin" \in roles
                   THEN "next" ELSE "Forbidden"

\* C4 witness: a member whose roles miss the required set passed because they
\* contain 'admin'
C4_Witness ==
  /\ last.op = "workspaceScope" /\ last.res = "next" /\ last.allowed # {}
  /\ GlobalRole(last.user) # "ostad"
  /\ ActiveWsMember(last.user, last.ws)
  /\ Range(Head(FindMembership(last.user, last.ws)).roles) \cap last.allowed = {}

\* C5 (as stated): an active division member whose roles contain 'division_admin'
\* passes divisionScope for every non-empty required set.
C5_DivisionAdminSatisfiesAny ==
  (/\ last.op = "divisionScope" /\ last.stage = "division"
   /\ GlobalRole(last.user) # "ostad"
   /\ last.div \in DOMAIN divisions
   /\ divisions[last.div].workspace = last.ws
   /\ ActiveDivMember(last.user, last.div)
   /\ "division_admin" \in Range(Head(FindDivMembership(last.user, last.div)).roles)
   /\ last.allowed # {})
  => last.res = "next"

\* C6 (as stated): an active division member holding 'division_admin', who is an
\* active member of the owning workspace, gets through the guards of
\* PUT /workspace/:workspaceId/divisions/:divisionId.
C6_DivisionAdminMayUpdate ==
  (/\ last.op = "updateDivision"
   /\ GlobalRole(last.user) # "ostad"
   /\ last.div \in DOMAIN divisions
   /\ divisions[last.div].workspace = last.ws
   /\ ActiveWsMember(last.user, last.ws)
   /\ ActiveDivMember(last.user, last.div)
   /\ "division_admin" \in Range(Head(FindDivMembership(last.user, last.div)).roles))
  => last.stage = "service"

\* C7 (as stated): after any sequence of the membership operations there is at
\* most one Workspace-Membership per (actor, workspace) and at most one
\* Division-Membership per (actor, division).
C7_OneMembershipPerPair ==
  /\ \A k \in DOMAIN memberships : Len(memberships[k]) <= 1
  /\ \A k \in DOMAIN divMemberships : Len(divMemberships[k]) <= 1

\* C8 (as stated): when accepts of the same token interleave at their awaits, a
\* successful accept leaves exactly one Membership for the invitee in the
\* invitation's workspace, and no second accept of the token is answered OK.
C8_RaceSingleMembership ==
  /\ \A t \in DOMAIN invites :
       invites[t].user # NoUser =>
         Len(memberships[<<invites[t].user, invites[t].workspace>>]) <= 1
  /\ \A r \in inflight :
       (r.token \in DOMAIN invites /\ invites[r.token].status = "accepted") =>
         r.pc # "save"

\* an invitation already answered, and a token whose invitation is gone
Settled(t) == t \in DOMAIN invites /\ invites[t].status \in {"accepted", "declined"}
Gone(t) == t <= tokCount /\ t \notin DOMAIN invites

\* C9: once a token has been accepted or declined, it stays answered (or its
\* invitation is deleted), and every later accept or decline of it is refused
\* BadRequest, creates no Membership and leaves the invitations unchanged.
C9_TokenSingleUse ==
  [][ /\ \A t \in Tokens :
           /\ Settled(t) => (t \notin DOMAIN invites' \/ invites'[t] = invites[t])
           /\ Gone(t) => t \notin DOMAIN invites'
      /\ (/\ last'.op \in {"accept", "decline"}
          /\ Settled(last'.token) \/ Gone(last'.token))
         => /\ last'.res = "BadRequest"
            /\ memberships' = memberships
            /\ invites' = invites ]_vars

\* C9 witness: the invitee's accept or decline of an unexpired invitation was
\* refused because it had been answered before
C9_Witness ==
  /\ last.op \in {"accept", "decline"} /\ last.res = "BadRequest"
  /\ Settled(last.token)
  /\ invites[last.token].user = last.user
  /\ invites[last.token].expiresAt >= now

\* C10: a successful accept of an invitation in status 'sent' appends exactly one
\* active Membership for (actor, invitation's workspace) whose role names are the
\* invitation's role, sets the invitation's status to 'accepted', and changes
\* nothing else.
C10_AcceptEffect ==
  [][ (/\ last'.op = "accept" /\ last'.res = "OK"
       /\ last'.token \in DOMAIN invites
       /\ invites[last'.token].status = "sent")
      => LET t == last'.token
             u == last'.user
         IN /\ memberships' =
                 [memberships EXCEPT ![<<u, invites[t].workspace>>] =
                    Append(@, [roles |-> <<invites[t].role>>, status |-> "active"])]
            /\ invites' = [invites EXCEPT ![t].status = "accepted"]
            /\ UNCHANGED <<workspaces, wsCount, divisions, divCount, divMemberships,
                           tokCount, now, inflight>> ]_vars

\* C10 witness: an accept succeeded; the invitation is 'accepted' and the invitee
\* holds one active Membership with the invitation's role
C10_Witness ==
  /\ last.op = "accept" /\ last.res = "OK"
  /\ invites[last.token].status = "accepted"
  /\ memberships[<<last.user, invites[last.token].workspace>>] =
       <<[roles |-> <<invites[last.token].role>>, status |-> "active"]>>

\* the invitations of (email, workspace) whose status is 'pending' or 'sent'
LiveInvites(e, w) ==
  { t \in DOMAIN invites : /\ invites[t].email = e /\ invites[t].workspace = w
                           /\ invites[t].status \in {"pending", "sent"} }

\* C11 (as stated): in every reachable state, also when sends for the same
\* (email, workspace) interleave at their awaits, at most one invitation with
\* status 'pending' or 'sent' exists per (email, workspace).
C11_OneLiveInvitePerPair ==
  \A e \in Emails, w \in WsIds : Cardinality(LiveInvites(e, w)) <= 1

\* every invitation record of (email, workspace), whatever its status
InvitesFor(inv, e, w) ==
  { t \in DOMAIN inv : inv[t].email = e /\ inv[t].workspace = w }

\* what a successful send leaves: one record for its pair, every earlier one gone
SendSupersedes ==
  (last'.op = "send" /\ last'.res = "OK")
  => LET t == last'.token
         e == invites'[t].email
         w == invites'[t].workspace
     IN /\ InvitesFor(invites', e, w) = {t}
        /\ \A old \in InvitesFor(invites, e, w) : old \notin DOMAIN invites'

\* C12 (as stated): after two successive sends to one (email, workspace) exactly
\* one invitation record exists for the pair, and a later accept or decline with
\* the first send's token fails with kind NotFound and changes no state.
C12_SupersededTokenNotFound ==
  [][ /\ SendSupersedes
      /\ (last'.op \in {"accept", "decline"} /\ Gone(last'.token))
         => (last'.res = "NotFound" /\ UNCHANGED dbVars) ]_vars

\* C12 (amended): after two successive sends to one (email, workspace) exactly
\* one invitation record exists for the pair, and a later accept or decline with
\* the first send's token fails with kind BadRequest and changes no state.
C12_SupersededTokenBadRequest ==
  [][ /\ SendSupersedes
      /\ (last'.op \in {"accept", "decline"} /\ Gone(last'.token))
         => (last'.res = "BadRequest" /\ UNCHANGED dbVars) ]_vars

\* C12 witness: the invitee used a superseded token while the invitation that
\* replaced it exists, and was refused
C12_Witness ==
  /\ last.op \in {"accept", "decline"} /\ Gone(last.token)
  /\ last.res = "BadRequest"
  /\ \E t \in DOMAIN invites :
       /\ t > last.token /\ invites[t].user = last.user
       /\ InvitesFor(invites, invites[t].email, invites[t].workspace) = {t}

\* the status changes of the invitation state machine
StatusMoves ==
  { <<"sent", "accepted">>, <<"sent", "declined">>,
    <<"pending", "accepted">>, <<"pending", "declined">> }

\* C13 (as stated): the only status changes ever written are sent->accepted,
\* sent->declined, pending->accepted and pending->declined, so an 'accepted' or
\* 'declined' invitation never changes status again, in every interleaving of
\* accept and decline requests on one token.
C13_StatusOneWay ==
  [][ \A t \in DOMAIN invites :
        (t \in DOMAIN invites' /\ invites'[t].status # invites[t].status)
        => <<invites[t].status, invites'[t].status>> \in StatusMoves ]_vars

\* C14: after createWorkspace(name, U1) succeeds, U1 holds one active
\* Workspace-Membership on the new workspace with role names {'admin'}, and
\* workspaceScope for U1 on that workspace requiring {'admin'} succeeds.
C14_CreatorIsAdmin ==
  /\ (last.op = "createWorkspace" /\ last.res = "OK")
     => /\ last.ws \in DOMAIN workspaces
        /\ workspaces[last.ws].createdBy = last.user
        /\ memberships[<<last.user, last.ws>>] =
             <<[roles |-> <<"admin">>, status |-> "active"]>>
        /\ workspaceScope(last.user, last.ws, {"admin"}) = "next"
  /\ (/\ last.op = "workspaceScope" /\ last.ws \in DOMAIN workspaces
      /\ workspaces[last.ws].createdBy = last.user
      /\ last.allowed = {"admin"})
     => last.res = "next"

\* C14 witness: the creator of a workspace, not a superuser, passed
\* workspaceScope(['admin']) on it
C14_Witness ==
  /\ last.op = "workspaceScope" /\ last.ws \in DOMAIN workspaces
  /\ workspaces[last.ws].createdBy = last.user
  /\ GlobalRole(last.user) # "ostad"
  /\ last.allowed = {"admin"} /\ last.res = "next"

\* a sequence without a repeated element
NoRepeats(q) == Cardinality(Range(q)) = Len(q)

\* the names of the roles of a registry, in order
RoleNames(roles) == [i \in 1..Len(roles) |-> roles[i].name]

\* C15 (as stated): after any sequence of tenant creation, addRole, updateRole and
\* removeRole, no workspace and no division has two Role entries of one name.
C15_UniqueRoleNames ==
  /\ \A w \in DOMAIN workspaces : NoRepeats(RoleNames(workspaces[w].roles))
  /\ \A d \in DOMAIN divisions : NoRepeats(RoleNames(divisions[d].roles))

\* C16 (as stated): for workspace and division memberships alike, assignRole of a
\* role whose name the member already holds fails BadRequest and leaves the
\* stored role names unchanged.
C16_DuplicateAssignRejected ==
  [][ /\ (/\ last'.op = "assignRole" /\ last'.stage = "service"
          /\ memberships[<<last'.target, last'.ws>>] # << >>
          /\ RoleNamesById(workspaces[last'.ws].roles, last'.token) # << >>
          /\ RoleNamesById(workspaces[last'.ws].roles, last'.token)[1]
               \in Range(Head(memberships[<<last'.target, last'.ws>>]).roles))
         => (last'.res = "BadRequest" /\ memberships' = memberships)
      /\ (/\ last'.op = "assignDivRole" /\ last'.stage = "service"
          /\ divMemberships[<<last'.target, last'.div>>] # << >>
          /\ RoleNamesById(divisions[last'.div].roles, last'.token) # << >>
          /\ RoleNamesById(divisions[last'.div].roles, last'.token)[1]
               \in Range(Head(divMemberships[<<last'.target, last'.div>>]).roles))
         => (last'.res = "BadRequest" /\ divMemberships' = divMemberships) ]_vars

\* C17: the role names of every Workspace-Membership and Division-Membership
\* hold no name twice, after any sequence of membership creation, assignRole and
\* unassignRole, also when the tenant has several roles of one name.
C17_RoleNamesAreSet ==
  /\ \A k \in DOMAIN memberships :
       \A i \in 1..Len(memberships[k]) : NoRepeats(memberships[k][i].roles)
  /\ \A k \in DOMAIN divMemberships :
       \A i \in 1..Len(divMemberships[k]) : NoRepeats(divMemberships[k][i].roles)

\* C17 witness: the workspace has two roles of one name, and the second was
\* assigned to a member who already held the name
C17_Witness ==
  /\ last.op = "assignRole" /\ last.res = "OK"
  /\ ~NoRepeats(RoleNames(workspaces[last.ws].roles))
  /\ \E i \in 1..Len(workspaces[last.ws].roles) :
       /\ workspaces[last.ws].roles[i].id # last.token
       /\ workspaces[last.ws].roles[i].name =
            RoleNamesById(workspaces[last.ws].roles, last.token)[1]
  /\ RoleNamesById(workspaces[last.ws].roles, last.token)[1]
       \in Range(Head(memberships[<<last.target, last.ws>>]).roles)

\* C18 (as stated): the permissions of every Role stored on a tenant hold no
\* string twice, after any addRole or updateRole, whatever list the request gave.
C18_PermissionsAreSet ==
  /\ \A w \in DOMAIN workspaces :
       \A i \in 1..Len(workspaces[w].roles) : NoRepeats(workspaces[w].roles[i].permissions)
  /\ \A d \in DOMAIN divisions :
       \A i \in 1..Len(divisions[d].roles) : NoRepeats(divisions[d].roles[i].permissions)

\* C19: removeRole changes no Membership, and an active member passes every
\* scope check that requires a name among its role names, whether or not the
\* tenant still has a role of that name.
C19_RemoveRoleKeepsNames ==
  /\ [][ last'.op \in {"removeRole", "removeDivRole"}
         => (memberships' = memberships /\ divMemberships' = divMemberships) ]_vars
  /\ []( (/\ last.op = "workspaceScope" /\ last.ws \in DOMAIN workspaces
          /\ ActiveWsMember(last.user, last.ws)
          /\ Range(Head(FindMembership(last.user, last.ws)).roles) \cap last.allowed # {})
         => last.res = "next" )
  /\ []( (/\ last.op = "divisionScope" /\ last.div \in DOMAIN divisions
          /\ divisions[last.div].workspace = last.ws
          /\ ActiveWsMember(last.user, last.ws)
          /\ ActiveDivMember(last.user, last.div)
          /\ Range(Head(FindDivMembership(last.user, last.div)).roles)
               \cap last.allowed # {})
         => last.res = "next" )

\* C19 witness: a member passed a division scope check by a role name that the
\* division no longer has, while holding a workspace role name that the
\* workspace no longer has
C19_Witness ==
  /\ last.op = "divisionScope" /\ last.res = "next"
  /\ GlobalRole(last.user) # "ostad"
  /\ last.allowed = {"division_member"}
  /\ "division_member" \in Range(Head(FindDivMembership(last.user, last.div)).roles)
  /\ "division_member" \notin Range(RoleNames(divisions[last.div].roles))
  /\ "user" \in Range(Head(FindMembership(last.user, last.ws)).roles)
  /\ "user" \notin Range(RoleNames(workspaces[last.ws].roles))

\* C20 (as stated): for a workspace and for a division alike, removeMember whose
\* target is the remover fails BadRequest and deletes no Membership, whatever
\* roles the remover holds.
C20_SelfRemovalRejected ==
  [][ (/\ last'.op \in {"removeMember", "removeDivMember"}
       /\ last'.stage = "service"
       /\ last'.target = last'.user)
      => /\ last'.res = "BadRequest"
         /\ memberships' = memberships
         /\ divMemberships' = divMemberships ]_vars

\* C21: a successful deleteWorkspace(W) leaves no Workspace-Membership of W and
\* changes no Membership of another workspace nor any Division-Membership of a
\* division of another workspace; a successful deleteDivision(D) leaves no
\* Division-Membership of D and changes no other Membership.
C21_DeleteCascadesMemberships ==
  [][ /\ (last'.op = "deleteWorkspace" /\ last'.res = "OK")
         => /\ \A k \in DOMAIN memberships' :
                 IF k[2] = last'.ws THEN memberships'[k] = << >>
                 ELSE memberships'[k] = memberships[k]
            /\ \A k \in DOMAIN divMemberships' :
                 \A i \in 1..Len(divMemberships[k]) :
                   divMemberships[k][i].workspace # last'.ws =>
                     divMemberships'[k] = divMemberships[k]
      /\ (last'.op = "deleteDivision" /\ last'.res = "OK")
         => /\ \A k \in DOMAIN divMemberships' :
                 IF k[2] = last'.div THEN divMemberships'[k] = << >>
                 ELSE divMemberships'[k] = divMemberships[k]
            /\ memberships' = memberships ]_vars

\* C21 witness: a workspace that had members was deleted while the deleting actor
\* keeps a Membership on another workspace
C21_Witness ==
  /\ last.op = "deleteWorkspace" /\ last.res = "OK"
  /\ \A u \in Users : memberships[<<u, last.ws>>] = << >>
  /\ \E w \in DOMAIN workspaces : memberships[<<last.user, w>>] # << >>
  /\ \E t \in DOMAIN invites :
       invites[t].workspace = last.ws /\ invites[t].status = "accepted"

\* C22 (as stated): in every reachable state every stored Division's workspace is
\* a Workspace that exists.
C22_DivisionHasWorkspace ==
  \A d \in DOMAIN divisions : divisions[d].workspace \in DOMAIN workspaces

\* an active Membership of the actor on the workspace, whichever document holds it
HoldsActiveWs(u, w) ==
  u # NoUser /\ \E i \in 1..Len(memberships[<<u, w>>]) : memberships[<<u, w>>][i].status = "active"
HoldsActiveDiv(u, d) ==
  u # NoUser /\ \E i \in 1..Len(divMemberships[<<u, d>>]) :
                  divMemberships[<<u, d>>][i].status = "active"

\* C23: addMemberToDivision fails BadRequest and creates no Division-Membership
\* when the target holds no active Workspace-Membership on the division's owning
\* workspace or already holds an active Division-Membership on the division;
\* otherwise it creates one active Division-Membership with role names
\* {'division_member'} and nothing else.
C23_AddMemberContract ==
  [][ (last'.op = "addMember" /\ last'.stage = "service")
      => LET m == last'.target
             d == last'.div
             w == divisions[d].workspace
         IN IF ~HoldsActiveWs(m, w) \/ HoldsActiveDiv(m, d)
            THEN last'.res = "BadRequest" /\ divMemberships' = divMemberships
            ELSE /\ last'.res = "OK"
                 /\ divMemberships' =
                      [divMemberships EXCEPT ![<<m, d>>] =
                         Append(@, [workspace |-> w, roles |-> <<"division_member">>,
                                    status |-> "active"])] ]_vars

\* C23 witness: an add was refused for a target who is no member of the owning
\* workspace any more, and who holds no Membership on the division
C23_Witness ==
  /\ last.op = "addMember" /\ last.stage = "service" /\ last.res = "BadRequest"
  /\ last.target # NoUser
  /\ ~HoldsActiveWs(last.target, last.ws)
  /\ ~HoldsActiveDiv(last.target, last.div)
  /\ \E t \in DOMAIN invites :
       /\ invites[t].user = last.target /\ invites[t].workspace = last.ws
       /\ invites[t].status = "accepted"

\* C24 (as stated): for every integer page and limit given to a paginated list,
\* the effective limit lies in 1..100 and the effective page is at least 1.
C24_PagingClamped ==
  (last.op = "allMembers" /\ last.stage = "service")
  => (last.page >= 1 /\ last.limit \in 1..MAX_LIMIT)

\* the requests that change a role registry
RegistryOps == {"addRole", "updateRole", "removeRole",
                "addDivRole", "updateDivRole", "removeDivRole"}

\* C25 (as stated): no addRole, updateRole or removeRole, on a workspace or on a
\* division, answers success when the store refused its write.
C25_WriteFailureReachesCaller ==
  (last.op \in RegistryOps /\ "writeFailed" \in DOMAIN last) => last.res # "OK"

\* C26: with no role required, workspaceScope lets through every non-superuser
\* holding an active Workspace-Membership, and divisionScope, reached through
\* the owning workspace, every non-superuser holding an active
\* Division-Membership, whatever their role names, none at all included.
C26_EmptyRequirementIsMembershipGate ==
  /\ \A u \in Users :
       GlobalRole(u) # "ostad" =>
         /\ \A w \in DOMAIN workspaces :
              ActiveWsMember(u, w) => workspaceScope(u, w, {}) = "next"
         /\ \A d \in DOMAIN divisions :
              ActiveDivMember(u, d) =>
                divisionScope(u, u, divisions[d].workspace, d, {}) = "next"
  /\ (/\ last.op = "workspaceScope" /\ last.allowed = {}
      /\ GlobalRole(last.user) # "ostad"
      /\ last.ws \in DOMAIN workspaces
      /\ ActiveWsMember(last.user, last.ws))
     => last.res = "next"
  /\ (/\ last.op = "divisionScope" /\ last.allowed = {} /\ last.stage = "division"
      /\ GlobalRole(last.user) # "ostad"
      /\ last.div \in DOMAIN divisions
      /\ divisions[last.div].workspace = last.ws
      /\ ActiveDivMember(last.user, last.div))
     => last.res = "next"

\* C26 witness: a member left without any role name, on the workspace and on the
\* division, passed a division scope check that required no role
C26_Witness ==
  /\ last.op = "divisionScope" /\ last.allowed = {} /\ last.res = "next"
  /\ GlobalRole(last.user) # "ostad"
  /\ ActiveWsMember(last.user, last.ws)
  /\ Head(FindMembership(last.user, last.ws)).roles = << >>
  /\ ActiveDivMember(last.user, last.div)
  /\ Head(FindDivMembership(last.user, last.div)).roles = << >>

\* C27: an accept or a decline of an existing invitation by an actor other than
\* the one it is bound to, or after its expiry date, is refused BadRequest,
\* creates no Membership and leaves every invitation as it was, whatever the
\* invitation's status.
C27_WrongActorOrExpiredRefused ==
  [][ (/\ last'.op \in {"accept", "decline"}
       /\ last'.token \in DOMAIN invites
       /\ \/ invites[last'.token].user # last'.user
          \/ now > invites[last'.token].expiresAt)
      => /\ last'.res = "BadRequest"
         /\ memberships' = memberships
         /\ invites' = invites ]_vars

\* C27 witness: the invitee answered an invitation still in status 'sent' after
\* its expiry date and was refused
C27_Witness ==
  /\ last.op \in {"accept", "decline"} /\ last.res = "BadRequest"
  /\ last.token \in DOMAIN invites
  /\ invites[last.token].user = last.user
  /\ invites[last.token].status = "sent"
  /\ now > invites[last.token].expiresAt

\* C28: a successful decline sets the status of its invitation to 'declined' and
\* changes nothing else: no Membership is created, modified or deleted.
C28_DeclineEffect ==
  [][ (/\ last'.op = "decline" /\ last'.res = "OK"
       /\ last'.token \in DOMAIN invites)
      => /\ invites' = [invites EXCEPT ![last'.token].status = "declined"]
         /\ memberships' = memberships
         /\ divMemberships' = divMemberships
         /\ UNCHANGED <<workspaces, wsCount, divisions, divCount, tokCount, now,
                        inflight>> ]_vars

\* C28 witness: an invitation was declined by its invitee, who holds no
\* Membership on the invitation's workspace
C28_Witness ==
  /\ last.op = "decline" /\ last.res = "OK"
  /\ invites[last.token].status = "declined"
  /\ invites[last.token].user = last.user
  /\ memberships[<<last.user, invites[last.token].workspace>>] = << >>

\* C29: a send to the email of an actor who holds an active Workspace-Membership
\* on the workspace is refused BadRequest, creates no invitation and leaves
\* every stored invitation, those of the same (email, workspace) included, in
\* place.
C29_SendToMemberRefused ==
  [][ (/\ last'.op = "send" /\ last'.stage = "service"
       /\ HoldsActiveWs(last'.target, last'.ws))
      => /\ last'.res = "BadRequest"
         /\ invites' = invites
         /\ tokCount' = tokCount ]_vars

\* C29 witness: a send to a member was refused while the invitation the member
\* had accepted is still stored
C29_Witness ==
  /\ last.op = "send" /\ last.stage = "service" /\ last.res = "BadRequest"
  /\ HoldsActiveWs(last.target, last.ws)
  /\ \E t \in DOMAIN invites :
       /\ invites[t].user = last.target /\ invites[t].workspace = last.ws
       /\ invites[t].status = "accepted"

\* C30 (as stated): removeRole on an existing workspace or division that has no
\* role of the given id fails NotFound and leaves the tenant's role list
\* unchanged.
C30_RemoveMissingRoleNotFound ==
  [][ /\ (/\ last'.op = "removeRole" /\ last'.stage = "service"
          /\ FirstRoleIndex(workspaces[last'.ws].roles, last'.token) = 0)
         => (last'.res = "NotFound" /\ workspaces' = workspaces)
      /\ (/\ last'.op = "removeDivRole" /\ last'.stage = "service"
          /\ FirstRoleIndex(divisions[last'.div].roles, last'.token) = 0)
         => (last'.res = "NotFound" /\ divisions' = divisions) ]_vars

\* C31 (as stated): assignRole and unassignRole with a role id the tenant's role
\* list does not hold fail NotFound or BadRequest and leave the role names of
\* the target's Membership unchanged, on a workspace and on a division.
C31_UnknownRoleRefused ==
  [][ /\ (/\ last'.op \in {"assignRole", "unassignRole"} /\ last'.stage = "service"
          /\ RoleNamesById(workspaces[last'.ws].roles, last'.token) = << >>)
         => /\ last'.res \in {"NotFound", "BadRequest"}
            /\ memberships' = memberships
      /\ (/\ last'.op \in {"assignDivRole", "unassignDivRole"} /\ last'.stage = "service"
          /\ RoleNamesById(divisions[last'.div].roles, last'.token) = << >>)
         => /\ last'.res \in {"NotFound", "BadRequest"}
            /\ divMemberships' = divMemberships ]_vars

\* C32: no two workspaces ever have the same name and creator, also after a
\* createWorkspace that stored the workspace and then failed before the founding
\* Membership, however often the creator retries it.
C32_RetryCreatesNoDuplicate ==
  \A w1, w2 \in DOMAIN workspaces :
    (/\ workspaces[w1].name = workspaces[w2].name
     /\ workspaces[w1].createdBy = workspaces[w2].createdBy) => w1 = w2

\* C32 witness: the only workspace is one left without its founding Membership,
\* and its creator's retry of createWorkspace has just been refused
C32_Witness ==
  /\ last.op = "createWorkspace" /\ last.res = "BadRequest"
  /\ Cardinality(DOMAIN workspaces) = 1
  /\ \A w \in DOMAIN workspaces :
       /\ workspaces[w].createdBy = last.user
       /\ \A u \in Users : memberships[<<u, w>>] = << >>

\* C33: an invitation in status 'pending' is bound to no actor; every accept or
\* decline of its token is refused BadRequest for every actor and creates no
\* Membership, and the invitation stays as it is until it is deleted or
\* superseded.
C33_PendingNeverAnswered ==
  /\ [](\A t \in DOMAIN invites : invites[t].status = "pending" => invites[t].user = NoUser)
  /\ [][ /\ \A t \in DOMAIN invites :
              invites[t].status = "pending" =>
                (t \notin DOMAIN invites' \/ invites'[t] = invites[t])
         /\ (/\ last'.op \in {"accept", "decline"}
             /\ last'.token \in DOMAIN invites
             /\ invites[last'.token].status = "pending")
            => (last'.res = "BadRequest" /\ memberships' = memberships) ]_vars

\* C33 witness: an actor answered a 'pending' invitation before its expiry date
\* and was refused
C33_Witness ==
  /\ last.op \in {"accept", "decline"} /\ last.res = "BadRequest"
  /\ last.token \in DOMAIN invites
  /\ invites[last.token].status = "pending"
  /\ invites[last.token].expiresAt >= now


\* C34 (as stated): a delete-invitation request that passed
\* workspaceScope(['admin']) on the workspace of its path removes only an
\* Invitation of that workspace; the Invitations of every other workspace are
\* left as they were.
C34_DeleteStaysInWorkspace ==
  [][ (last'.op = "deleteInvite" /\ last'.stage = "service")
      => \A t \in DOMAIN invites :
           invites[t].workspace # last'.ws
             => (t \in DOMAIN invites' /\ invites'[t] = invites[t]) ]_vars


\* C35 (as stated): every Workspace-Membership references a Workspace that
\* exists; no sequence of send, deleteWorkspace and accept leaves a Membership
\* of a deleted workspace.
C35_MembershipHasWorkspace ==
  \A u \in Users, w \in WsIds :
    memberships[<<u, w>>] # << >> => w \in DOMAIN workspaces


\* C36 (as stated): every active Division-Membership belongs to an actor who
\* holds an active Workspace-Membership on the workspace that owns the
\* division, after any sequence of createDivision (by a member or by a
\* superuser), addMemberToDivision, removeWorkspaceMember and
\* removeMemberFromDivision.
C36_DivisionMemberIsWorkspaceMember ==
  \A u \in Users, d \in DOMAIN divisions :
    HoldsActiveDiv(u, d) => HoldsActiveWs(u, divisions[d].workspace)


\* C37 (as stated): every existing workspace has at least one active
\* Workspace-Membership whose role names contain 'admin'; no sequence of
\* removeMember, assignRole and unassignRole requests, each served whole,
\* removes a workspace's last admin.
C37_WorkspaceKeepsAnAdmin ==
  \A w \in DOMAIN workspaces :
    \E u \in Users : \E i \in 1..Len(memberships[<<u, w>>]) :
      /\ memberships[<<u, w>>][i].status = "active"
      /\ "admin" \in Range(memberships[<<u, w>>][i].roles)


\* C38 (as stated): after a successful removeRole the tenant's stored role list
\* is the previous list without the Role of the given id, the other entries in
\* their order, for a workspace and for a division, also when the removed Role
\* was the tenant's only one.
C38_RemoveRoleRemovesExactlyOne ==
  [][ /\ (/\ last'.op = "removeRole" /\ last'.stage = "service" /\ last'.res = "OK"
          /\ "writeFailed" \notin DOMAIN last'
          /\ FirstRoleIndex(workspaces[last'.ws].roles, last'.token) # 0)
         => workspaces'[last'.ws].roles =
              SelectSeq(workspaces[last'.ws].roles, LAMBDA r : r.id # last'.token)
      /\ (/\ last'.op = "removeDivRole" /\ last'.stage = "service" /\ last'.res = "OK"
          /\ "writeFailed" \notin DOMAIN last'
          /\ FirstRoleIndex(divisions[last'.div].roles, last'.token) # 0)
         => divisions'[last'.div].roles =
              SelectSeq(divisions[last'.div].roles, LAMBDA r : r.id # last'.token) ]_vars


\* C39 (as stated): a token has produced a Workspace-Membership exactly when
\* its invitation's status is 'accepted', also when an accept and a decline of
\* the token interleave and when the status write of an accept fails: an accept
\* that got past Membership.create leaves its invitation 'accepted' when it
\* ends, an 'accepted' invitation has its invitee enrolled, and an 'accepted'
\* invitation never takes another status.
C39_MembershipIffAccepted ==
  /\ []((/\ last.op = "accept" /\ last.stage = "service"
         /\ last.res \in {"OK", "Internal"}
         /\ last.token \in DOMAIN invites)
        => invites[last.token].status = "accepted")
  /\ [](\A t \in DOMAIN invites :
          invites[t].status = "accepted"
            => memberships[<<invites[t].user, invites[t].workspace>>] # << >>)
  /\ [][\A t \in DOMAIN invites :
          (invites[t].status = "accepted" /\ t \in DOMAIN invites')
            => invites'[t].status = "accepted"]_vars


\* the Division documents of workspace w
DivisionsOf(w) ==
  [d \in {x \in DOMAIN divisions : divisions[x].workspace = w} |-> divisions[d]]

\* C40 (as stated): the uniqueness of a division's name is scoped to the owning
\* workspace: a createDivision or updateDivision that reaches its service on
\* workspace w succeeds exactly when no other division of w has the name, as
\* it would if the other workspaces had no divisions.
C40_NameUniquenessPerWorkspace ==
  [][ \A u \in Users, w \in WsIds, n \in DivNames :
        /\ (CreateDivision(u, w, n) /\ last'.stage = "service")
           => (last'.res = "OK"
                 <=> ~\E x \in DOMAIN DivisionsOf(w) : DivisionsOf(w)[x].name = n)
        /\ \A d \in DivIds :
             (UpdateDivision(u, w, d, n) /\ last'.stage = "service")
             => (last'.res = "OK"
                   <=> ~\E x \in DOMAIN DivisionsOf(w) :
                          DivisionsOf(w)[x].name = n /\ x # d) ]_vars

=============================================================================
